---------------------------- MODULE Spec2Model ----------------------------
(***************************************************************************)
(* Reward-ledger engine of the stock reward system: reward intake          *)
(* (controllers/rewardController.js), the ledger and reward stores         *)
(* (models/*.js), the price oracle (services/priceService.js) and the      *)
(* corporate-action processor (services/corporateActionService.js).        *)
(*                                                                         *)
(* Every `await` of the JavaScript code is one step of the model: the      *)
(* store operation awaited takes effect atomically, followed by the        *)
(* synchronous code that runs up to the next `await`.  Requests interleave *)
(* at these steps, as they do on the Node.js event loop.                   *)
(*                                                                         *)
(* Five specifications.  Spec is the reward intake (createReward and the   *)
(* price oracle) on empty stores.  SpecCA is the corporate-action          *)
(* processor on stores that hold rewards the intake has answered 201 and   *)
(* announced corporate actions; there the clock is read where the code     *)
(* reads it (new Date(), Date.now()) and may have advanced at each read.   *)
(* SpecPO is the price service called on its own (getLatestPrice,          *)
(* getPriceForDate) on a cache and a price history that earlier lookups    *)
(* have left, with a clock that may pass the cache's time-to-live between  *)
(* calls.  SpecVT is validateTransaction on the ledgers made of a set of   *)
(* lines.  SpecRA is the corporate-action processor with createReward      *)
(* submissions arriving while it runs.                                     *)
(*                                                                         *)
(* Numbers.  JavaScript numbers and Decimal128 values are modelled as      *)
(* exact rationals [n, d] in lowest terms (d > 0); binary floating-point   *)
(* noise below 1e-15 relative is not modelled.  toFixed(4) is modelled as  *)
(* what it does: rounding to a multiple of 0.0001, ties upward.            *)
(***************************************************************************)
EXTENDS Integers, Sequences, FiniteSets, Bags, TLC

(***************************************************************************)
(* Bounds of the model                                                     *)
(***************************************************************************)
\* number of createReward invocations of a run (they may overlap in time)
MaxReq == 2
\* number of store operations that fail for a reason outside the program
\* (connection loss, timeout) in one run
MaxFaults == 1
\* number of invocations of the corporate-action service in a run:
\* processPendingCorporateActions runs and direct calls of a handler
MaxRuns == 2
\* number of times the clock advances while corporate actions are processed
\* (by a second) or while the price service is called (by the cache's
\* time-to-live)
MaxTicks == 1
\* number of calls of the price service, or of validateTransaction, in a run
MaxCalls == 2
\* number of createReward invocations that arrive while corporate actions
\* are processed
MaxArrivals == 1

(***************************************************************************)
(* Rational arithmetic                                                     *)
(***************************************************************************)
Abs(x) == IF x < 0 THEN -x ELSE x

RECURSIVE GCD(_, _)
GCD(a, b) == IF b = 0 THEN a ELSE GCD(b, a % b)

\* the rational n/d in lowest terms, d > 0
Rat(n, d) ==
    LET g == GCD(Abs(n), Abs(d))
        s == IF d < 0 THEN -1 ELSE 1
    IN  [n |-> s * (n \div g), d |-> s * (d \div g)]

Zero == [n |-> 0, d |-> 1]
One == [n |-> 1, d |-> 1]
\* "no value": a field that is absent (undefined) where a number may stand
NoNum == [n |-> 0, d |-> 0]
IsNum(x) == x.d > 0

\* product, cross-reduced before multiplying so that intermediate values
\* stay within TLC's integers
RMul(a, b) ==
    LET g1 == GCD(Abs(a.n), b.d)
        g2 == GCD(Abs(b.n), a.d)
        h1 == IF g1 = 0 THEN 1 ELSE g1
        h2 == IF g2 = 0 THEN 1 ELSE g2
    IN  Rat((a.n \div h1) * (b.n \div h2), (a.d \div h2) * (b.d \div h1))

RAdd(a, b) ==
    LET g == GCD(a.d, b.d)
        l == (a.d \div g) * b.d
    IN  Rat(a.n * (l \div a.d) + b.n * (l \div b.d), l)

RNeg(a) == [n |-> -a.n, d |-> a.d]
RSub(a, b) == RAdd(a, RNeg(b))
RDiv(a, b) == RMul(a, IF b.n < 0 THEN [n |-> -b.d, d |-> -b.n] ELSE [n |-> b.d, d |-> b.n])
RLess(a, b) == RSub(a, b).n < 0
RLeq(a, b) == RSub(a, b).n <= 0
RMax(a, b) == IF RLess(a, b) THEN b ELSE a
RAbs(a) == [n |-> Abs(a.n), d |-> a.d]

\* Number.prototype.toFixed(4): the number of 0.0001 units nearest to x,
\* the larger one on a tie (ECMAScript: "if there are two such n, pick the
\* larger n").  The result stands for the decimal string with 4 digits.
toFixed4(x) ==
    LET m == RMul(x, [n |-> 10000, d |-> 1])
    IN  (2 * m.n + m.d) \div (2 * m.d)

\* the value a 4-digit decimal string denotes (parseFloat of toFixed4's result)
Fixed4Value(k) == Rat(k, 10000)

(***************************************************************************)
(* JavaScript values of a request body                                     *)
(***************************************************************************)
\* the JavaScript value `undefined` (a field missing from the request body)
UNDEFINED == "<undefined>"
\* !v for a string-or-undefined value
Falsy(v) == v \in {UNDEFINED, ""}

\* A `shares` value of a request body.  t is the JavaScript type; for a
\* string, hasNum says that it starts with a decimal literal (whose value is
\* v) and junk that other characters follow the literal ("2.5abc").
ShareVal(t, hasNum, v, junk) == [t |-> t, hasNum |-> hasNum, v |-> v, junk |-> junk]
SharesUndefined == ShareVal("undefined", FALSE, Zero, FALSE)
SharesNum(v) == ShareVal("number", TRUE, v, FALSE)
SharesStr(v) == ShareVal("string", TRUE, v, FALSE)
SharesStrJunk(v) == ShareVal("string", TRUE, v, TRUE)
SharesStrNoNum == ShareVal("string", FALSE, Zero, TRUE)

\* parseFloat(x): the value of the longest decimal-literal prefix, NaN when
\* there is none
parseFloat(x) ==
    IF x.t \in {"number", "string"} /\ x.hasNum
    THEN [nan |-> FALSE, v |-> x.v]
    ELSE [nan |-> TRUE, v |-> Zero]

\* Mongoose's cast of a value to Decimal128: a number casts to its decimal
\* value; a string must be a decimal literal as a whole (Decimal128.fromString
\* throws otherwise, which Mongoose reports as a CastError)
castDecimal128(x) ==
    IF x.t = "number" \/ (x.t = "string" /\ x.hasNum /\ ~x.junk)
    THEN [ok |-> TRUE, v |-> x.v]
    ELSE [ok |-> FALSE, v |-> NoNum]

\* String.prototype.toUpperCase().trim() (also the schema options
\* `uppercase: true, trim: true`) on the symbols the model uses
UpperTrim(s) ==
    CASE s = " reliance " -> "RELIANCE"
      [] s = "reliance" -> "RELIANCE"
      [] s = "RELIANCE " -> "RELIANCE"
      [] OTHER -> s

(***************************************************************************)
(* Inputs                                                                  *)
(***************************************************************************)
UserInputs == {UNDEFINED, "u1"}
SymbolInputs == {UNDEFINED, " reliance "}
KeyInputs == {UNDEFINED, "k1", "k2"}
ShareInputs ==
    { SharesUndefined, SharesNum(Zero), SharesNum(Rat(-1, 1)), SharesStrNoNum,
      SharesNum(Rat(5, 2)), SharesStr(Rat(5, 2)), SharesStrJunk(Rat(5, 2)) }

\* the `timestamp` field of a request body: absent, or a date (milliseconds)
NoTs == [given |-> FALSE, t |-> 0]
TsAt(t) == [given |-> TRUE, t |-> t]
\* the clock (milliseconds) when the system starts
StartTime == 10 * 60 * 1000

\* The request bodies the model submits: a well-formed body, and that body
\* with one field replaced by each of the field's other input values.
BaseBody ==
    [userId |-> "u1", stockSymbol |-> " reliance ", shares |-> SharesNum(Rat(5, 2)),
     timestamp |-> NoTs, idempotencyKey |-> "k1"]
Bodies ==
    {[BaseBody EXCEPT !.userId = x] : x \in UserInputs}
    \cup {[BaseBody EXCEPT !.stockSymbol = x] : x \in SymbolInputs}
    \cup {[BaseBody EXCEPT !.shares = x] : x \in ShareInputs}
    \cup {[BaseBody EXCEPT !.idempotencyKey = x] : x \in KeyInputs}

\* Math.random() samples (a value in [0, 1))
RandomSamples == {Zero, Rat(1, 2)}

(***************************************************************************)
(* Program constants                                                       *)
(***************************************************************************)
CACHE_TTL == 5 * 60 * 1000

BASE_PRICES ==
    [RELIANCE |-> 2500, TCS |-> 3500, INFOSYS |-> 1500, HDFC |-> 1600,
     ICICIBANK |-> 900, BHARTIARTL |-> 800, ITC |-> 400, SBIN |-> 500,
     KOTAKBANK |-> 1800, LT |-> 3000]

brokerageRate == Rat(1, 1000)
sttRate == Rat(25, 100000)
gstRate == Rat(18, 100)

AccountEnum ==
    {"USER_PORTFOLIO", "COMPANY_CASH", "BROKERAGE_EXPENSE", "STT_EXPENSE",
     "GST_EXPENSE", "STAMP_DUTY_EXPENSE", "SEBI_FEES_EXPENSE",
     "EXCHANGE_FEES_EXPENSE"}
RewardStatusEnum == {"ACTIVE", "ADJUSTED", "CANCELLED", "REFUNDED"}

\* normalized symbols the stores and the cache can hold
Symbols == {UpperTrim(s) : s \in SymbolInputs \ {UNDEFINED}}

(***************************************************************************)
(* State                                                                   *)
(***************************************************************************)
VARIABLES
    rewards,       \* the RewardEvent collection, in insertion order
    ledger,        \* the LedgerEntry collection: a bag of documents
    priceHistory,  \* the StockPriceHistory collection: a bag of documents
    priceCache,    \* priceService's priceCache Map: symbol -> entry
    now,           \* the wall clock, Date.now()
    faults,        \* store operations that have failed so far
    req,           \* the createReward invocations in flight
    actions,       \* the StockCorporateAction collection, in insertion order
    runs,          \* the invocations of the corporate-action service
    calls          \* the calls of the price service and of validateTransaction

vars == <<rewards, ledger, priceHistory, priceCache, now, faults, req, actions, runs, calls>>
\* what the reward intake leaves alone
caVars == <<actions, runs, calls>>

Requests == 1 .. MaxReq

\* priceCache.get(symbol) of a symbol that has no entry
NoEntry == [price |-> NoNum, timestamp |-> 0]

NoDetails == [inrValue |-> 0, brokerage |-> 0, stt |-> 0, gst |-> 0, total |-> 0]
NoResp == [status |-> 0, rewardId |-> 0, error |-> "", details |-> NoDetails]
NoBody ==
    [userId |-> UNDEFINED, stockSymbol |-> UNDEFINED, shares |-> SharesUndefined,
     timestamp |-> NoTs, idempotencyKey |-> UNDEFINED]
IdleReq ==
    [pc |-> "idle", body |-> NoBody, rewardId |-> 0, cached |-> NoEntry,
     price |-> NoNum, resp |-> NoResp]

RunIds == 1 .. MaxRuns

\* An invocation of the corporate-action service.  `direct` tells a direct
\* call of a handler from a processPendingCorporateActions run; `pending` is
\* what is left of pendingActions, the current action included; `events` is
\* what is left of rewardEvents, the current event included; `adjustment` is
\* the _id of adjustmentEvent / mergerEvent.  The other fields record what
\* the invocation has done: the actions that were PROCESSED when it started,
\* the actions it listed, those whose handler it called, those whose handler
\* threw, and the adjustment events it created as <<action, original event,
\* adjustment event>>.
IdleRun ==
    [pc |-> "idle", direct |-> FALSE, pending |-> << >>, action |-> 0,
     events |-> << >>, adjustment |-> 0, outcome |-> "",
     sawProcessed |-> {}, listed |-> {}, handled |-> {}, failed |-> {},
     created |-> {}]

CallIds == 1 .. MaxCalls

\* A call of getLatestPrice, getPriceForDate or validateTransaction.  `at` is
\* the clock when getLatestPrice was entered, `cached` the cache entry it read
\* then, `price` the price it computed and put into the cache, `quoteAt` the
\* timestamp of the cache entry its result comes from (-1: none); `returned`
\* / `valid` is the value the call returned.
IdleCall ==
    [pc |-> "idle", op |-> "", symbol |-> UNDEFINED, date |-> 0, transactionId |-> 0,
     at |-> 0, cached |-> NoEntry, price |-> NoNum, quoteAt |-> -1,
     outcome |-> "", returned |-> NoNum, valid |-> FALSE]

Init ==
    /\ actions = << >>
    /\ runs = [r \in RunIds |-> IdleRun]
    /\ calls = [c \in CallIds |-> IdleCall]
    /\ rewards = << >>
    /\ ledger = EmptyBag
    /\ priceHistory = EmptyBag
    /\ priceCache = [s \in Symbols |-> NoEntry]
    /\ now = StartTime
    /\ faults = 0
    /\ req = [r \in Requests |-> IdleReq]

(***************************************************************************)
(* Stores (Mongoose models)                                                *)
(***************************************************************************)
\* Model.create(doc) on a collection held as a bag
Insert(collection, doc) == collection (+) SetToBag({doc})

\* a store operation fails for a reason outside the program
StoreFault ==
    /\ faults < MaxFaults
    /\ faults' = faults + 1

\* a RewardEvent document; _id is the position in the collection
RewardDoc(userId, stockSymbol, quantity, timestamp, idempotencyKey, status, adjustmentReason, parentRewardId, originalQuantity) ==
    [userId |-> userId, stockSymbol |-> UpperTrim(stockSymbol),
     quantity |-> quantity, timestamp |-> timestamp,
     idempotencyKey |-> idempotencyKey, status |-> status,
     adjustmentReason |-> adjustmentReason, parentRewardId |-> parentRewardId,
     originalQuantity |-> originalQuantity]

\* (mutant) the schema does not require the parent and the original
\* quantity of an ADJUSTED event
RewardEventValidNoParent(doc) ==
    /\ ~Falsy(doc.userId)
    /\ ~Falsy(doc.stockSymbol)
    /\ IsNum(doc.quantity)
    /\ ~Falsy(doc.idempotencyKey)
    /\ doc.status \in RewardStatusEnum
    /\ (doc.status # "ACTIVE" => doc.adjustmentReason # UNDEFINED)

\* the `required` validators of rewardEventSchema
RewardEventValid(doc) ==
    /\ ~Falsy(doc.userId)
    /\ ~Falsy(doc.stockSymbol)
    /\ IsNum(doc.quantity)
    /\ ~Falsy(doc.idempotencyKey)
    /\ doc.status \in RewardStatusEnum
    /\ (doc.status # "ACTIVE" => doc.adjustmentReason # UNDEFINED)
    /\ (doc.status \in {"ADJUSTED", "REFUNDED"} => doc.parentRewardId # 0)
    /\ (doc.status = "ADJUSTED" => IsNum(doc.originalQuantity))

\* the unique index on idempotencyKey: an insert of a key that is present is
\* rejected by the store (E11000 duplicate key error)
KeyTaken(key) == \E i \in 1 .. Len(rewards) : rewards[i].idempotencyKey = key

\* `min: 0` on a Decimal128 path (rewardEventSchema.quantity,
\* ledgerEntrySchema.quantity): the outcomes of the validation of a value,
\* TRUE for accepted.  Mongoose defines the `min` validator for Number and
\* Date paths; whether a build applies it to a Decimal128 path is not fixed
\* by the source, so a negative value may be refused or stored.
MinZeroOutcomes(quantity) ==
    IF IsNum(quantity) /\ quantity.n < 0 THEN {TRUE, FALSE} ELSE {TRUE}

\* (mutant) the lookup of the idempotency key never finds a record
FindRewardByKeyNever(key) == 0

\* RewardEvent.findOne({ idempotencyKey }): the _id of a match, 0 for null
FindRewardByKey(key) ==
    IF KeyTaken(key)
    THEN CHOOSE i \in 1 .. Len(rewards) : rewards[i].idempotencyKey = key
    ELSE 0

\* a LedgerEntry document
LedgerDoc(transactionId, userId, account, entryType, stockSymbol, quantity, inrAmount) ==
    [transactionId |-> transactionId, userId |-> userId, account |-> account,
     entryType |-> entryType,
     stockSymbol |-> IF stockSymbol = UNDEFINED THEN UNDEFINED ELSE UpperTrim(stockSymbol),
     quantity |-> quantity, inrAmount |-> inrAmount, status |-> "COMPLETED"]

\* the validators of ledgerEntrySchema
LedgerEntryValid(doc) ==
    /\ doc.transactionId # 0
    /\ ~Falsy(doc.userId)
    /\ doc.account \in AccountEnum
    /\ doc.entryType \in {"DEBIT", "CREDIT"}
    /\ (doc.account = "USER_PORTFOLIO" => ~Falsy(doc.stockSymbol) /\ IsNum(doc.quantity))
    /\ (doc.account # "USER_PORTFOLIO" => IsNum(doc.inrAmount))

(***************************************************************************)
(* Price oracle: services/priceService.js                                  *)
(***************************************************************************)
\* `cached && Date.now() - cached.timestamp < CACHE_TTL`
CacheHit(cached) == IsNum(cached.price) /\ now - cached.timestamp < CACHE_TTL

\* StockPriceHistory.findOne({stockSymbol}).sort({fetchedAt: -1}): the
\* positions of the quotes of the symbol with the greatest fetchedAt
LatestQuotes(symbol) ==
    {q \in BagToSet(priceHistory) :
        /\ q.stockSymbol = symbol
        /\ \A p \in BagToSet(priceHistory) :
              p.stockSymbol = symbol => p.fetchedAt <= q.fetchedAt}

BasePrice(symbol) ==
    IF symbol \in DOMAIN BASE_PRICES THEN Rat(BASE_PRICES[symbol], 1) ELSE Rat(1000, 1)

\* (mutant) the computed price is not floored at 1
ComputePriceNoFloor(lastPrice, symbol, random) ==
    LET centred == RSub(random, Rat(1, 2))
        raw == IF IsNum(lastPrice)
               THEN RMul(lastPrice, RAdd(One, RMul(centred, Rat(4, 100))))
               ELSE RMul(BasePrice(symbol), RAdd(One, RMul(centred, Rat(1, 10))))
    IN  Fixed4Value(toFixed4(raw))

\* the price computed on a cache miss from the last persisted price (NoNum
\* when there is none) and a Math.random() sample
ComputePrice(lastPrice, symbol, random) ==
    LET centred == RSub(random, Rat(1, 2))
        raw == IF IsNum(lastPrice)
               THEN RMul(lastPrice, RAdd(One, RMul(centred, Rat(4, 100))))
               ELSE RMul(BasePrice(symbol), RAdd(One, RMul(centred, Rat(1, 10))))
        floored == RMax(raw, One)
    IN  Fixed4Value(toFixed4(floored))

(***************************************************************************)
(* Fee computation of createReward                                         *)
(***************************************************************************)
InrValue(shares, price) == RMul(parseFloat(shares).v, price)
Brokerage(shares, price) == RMul(InrValue(shares, price), brokerageRate)
Stt(shares, price) == RMul(InrValue(shares, price), sttRate)
Gst(shares, price) == RMul(Brokerage(shares, price), gstRate)
TotalFees(shares, price) ==
    RAdd(RAdd(Brokerage(shares, price), Stt(shares, price)), Gst(shares, price))

\* transactionDetails of the 201 response: each amount as toFixed(4)
TransactionDetails(shares, price) ==
    [inrValue |-> toFixed4(InrValue(shares, price)),
     brokerage |-> toFixed4(Brokerage(shares, price)),
     stt |-> toFixed4(Stt(shares, price)),
     gst |-> toFixed4(Gst(shares, price)),
     total |-> toFixed4(TotalFees(shares, price))]

(***************************************************************************)
(* createReward: controllers/rewardController.js                           *)
(***************************************************************************)
Resp(status, rewardId, error, details) ==
    [status |-> status, rewardId |-> rewardId, error |-> error, details |-> details]

\* An invocation that has answered: its locals are gone; the model keeps the
\* response and the idempotency key the request carried.
Answered(rq, resp) ==
    [IdleReq EXCEPT !.pc = "done", !.resp = resp,
                    !.body = [NoBody EXCEPT !.idempotencyKey = rq.body.idempotencyKey]]

\* res.status(..).json(..): the invocation ends with this response
Finish(r, resp) ==
    req' = [req EXCEPT ![r] = Answered(req[r], resp)]

\* the catch block of createReward: 500 with the error's message
Fail(r, error) == Finish(r, Resp(500, req[r].rewardId, error, NoDetails))

\* lines 12-25: the synchronous validation of the request body
MissingFields(b) ==
    Falsy(b.userId) \/ Falsy(b.stockSymbol) \/ b.shares.t \in {"undefined", "null"}

InvalidShares(b) ==
    LET parsedShares == parseFloat(b.shares)
    IN  parsedShares.nan \/ RLeq(parsedShares.v, Zero)

\* A request arrives: invocation r starts and runs up to its first await.
Receive(r, b) ==
    /\ req[r].pc = "idle"
    /\ IF MissingFields(b)
       THEN req' = [req EXCEPT ![r] =
                Answered([IdleReq EXCEPT !.body = b],
                         Resp(400, 0, "Missing required fields", NoDetails))]
       ELSE IF InvalidShares(b)
       THEN req' = [req EXCEPT ![r] =
                Answered([IdleReq EXCEPT !.body = b],
                         Resp(400, 0, "Invalid shares value", NoDetails))]
       ELSE req' = [req EXCEPT ![r] =
                [IdleReq EXCEPT !.body = b,
                                !.pc = IF Falsy(b.idempotencyKey) THEN "create" ELSE "findOne"]]
    /\ UNCHANGED <<rewards, ledger, priceHistory, priceCache, now, faults>>
    /\ UNCHANGED caVars

\* lines 28-36: await RewardEvent.findOne({ idempotencyKey })
FindExisting(r) ==
    /\ req[r].pc = "findOne"
    /\ \/ StoreFault /\ Fail(r, "store error")
       \/ /\ LET existingReward == FindRewardByKey(req[r].body.idempotencyKey)
             IN  IF existingReward # 0
                 THEN Finish(r, Resp(200, existingReward, "", NoDetails))
                 ELSE req' = [req EXCEPT ![r].pc = "create"]
          /\ UNCHANGED faults
    /\ UNCHANGED <<rewards, ledger, priceHistory, priceCache, now>>
    /\ UNCHANGED caVars

\* (mutant) the collection has no unique index on idempotencyKey
CreateRewardErrorNoUniqueIndex(doc) ==
    IF ~RewardEventValid(doc) THEN "validation failed" ELSE ""

\* RewardEvent.create(doc): whether the store accepts the document, and the
\* error it raises otherwise
CreateRewardError(doc) ==
    IF ~RewardEventValid(doc) THEN "validation failed"
    ELSE IF KeyTaken(doc.idempotencyKey) THEN "duplicate key error"
    ELSE ""

\* the document createReward inserts (lines 39-45)
NewRewardDoc(b) ==
    RewardDoc(b.userId, b.stockSymbol, parseFloat(b.shares).v,
              IF b.timestamp.given THEN b.timestamp.t ELSE now,
              b.idempotencyKey, "ACTIVE", UNDEFINED, 0, NoNum)

\* lines 50-54: getLatestPrice returned currentPrice to the invocation rq
GotPrice(rq, currentPrice) ==
    IF ~IsNum(currentPrice) \/ RLeq(currentPrice, Zero)
    THEN Answered(rq, Resp(500, rq.rewardId, "Invalid stock price fetched.", NoDetails))
    ELSE [rq EXCEPT !.price = currentPrice, !.pc = "line1"]

\* lines 38-48: await RewardEvent.create(..), then the synchronous start of
\* getLatestPrice (priceService.js lines 30-36): the cache lookup
CreateEvent(r) ==
    /\ req[r].pc = "create"
    /\ \/ StoreFault /\ Fail(r, "store error") /\ UNCHANGED rewards
       \/ /\ UNCHANGED faults
          /\ LET doc == NewRewardDoc(req[r].body)
                 err == CreateRewardError(doc)
                 cached == priceCache[UpperTrim(req[r].body.stockSymbol)]
             IN  IF err # ""
                 THEN Fail(r, err) /\ UNCHANGED rewards
                 ELSE
                  /\ rewards' = Append(rewards, doc)
                  /\ LET rq == [req[r] EXCEPT !.rewardId = Len(rewards) + 1,
                                              !.cached = cached]
                     IN  req' = [req EXCEPT ![r] =
                            IF CacheHit(cached) THEN GotPrice(rq, cached.price)
                            ELSE [rq EXCEPT !.pc = "priceFind"]]
    /\ UNCHANGED <<ledger, priceHistory, priceCache, now>>
    /\ UNCHANGED caVars

\* priceService.js lines 74-84: the catch block of getLatestPrice, entered
\* when a store operation of the lookup fails; `cached` is the entry read
\* when the lookup started
PriceFallback(r) ==
    IF IsNum(req[r].cached.price)
    THEN req' = [req EXCEPT ![r] = GotPrice(req[r], req[r].cached.price)]
    ELSE Fail(r, "Unable to fetch price")

\* priceService.js lines 40-65: await StockPriceHistory.findOne(..).sort(..),
\* then the price computation and the cache update
PriceFind(r) ==
    /\ req[r].pc = "priceFind"
    /\ LET symbol == UpperTrim(req[r].body.stockSymbol)
       IN  \/ /\ StoreFault
              /\ PriceFallback(r)
              /\ UNCHANGED priceCache
           \/ \E random \in RandomSamples :
              \E lastPrice \in IF LatestQuotes(symbol) = {} THEN {NoNum}
                               ELSE {q.price : q \in LatestQuotes(symbol)} :
                 LET price == ComputePrice(lastPrice, symbol, random)
                 IN  /\ priceCache' = [priceCache EXCEPT ![symbol] =
                                          [price |-> price, timestamp |-> now]]
                     /\ req' = [req EXCEPT ![r] = [@ EXCEPT !.price = price, !.pc = "pricePersist"]]
                     /\ UNCHANGED faults
    /\ UNCHANGED <<rewards, ledger, priceHistory, now>>
    /\ UNCHANGED caVars

\* priceService.js lines 67-73: await StockPriceHistory.create(..), return
PricePersist(r) ==
    /\ req[r].pc = "pricePersist"
    /\ \/ /\ StoreFault
          /\ PriceFallback(r)
          /\ UNCHANGED priceHistory
       \/ /\ priceHistory' = Insert(priceHistory,
                [stockSymbol |-> UpperTrim(req[r].body.stockSymbol),
                 price |-> req[r].price, fetchedAt |-> now])
          /\ UNCHANGED faults
          /\ req' = [req EXCEPT ![r] = GotPrice(req[r], req[r].price)]
    /\ UNCHANGED <<rewards, ledger, priceCache, now>>
    /\ UNCHANGED caVars

\* await LedgerEntry.create(doc) of an invocation at position `at`: the
\* store rejects (connection error, or the document fails validation, a
\* value that does not cast included) or inserts the line; `castOk` says
\* whether every value of the document casts to its schema type
LedgerEntryCreate(r, at, doc, castOk, next) ==
    /\ req[r].pc = at
    /\ \/ StoreFault /\ Fail(r, "store error") /\ UNCHANGED ledger
       \/ /\ UNCHANGED faults
          /\ IF ~castOk \/ ~LedgerEntryValid(doc)
             THEN Fail(r, "validation failed") /\ UNCHANGED ledger
             ELSE /\ ledger' = Insert(ledger, doc)
                  /\ req' = [req EXCEPT ![r] = next]
    /\ UNCHANGED <<rewards, priceHistory, priceCache, now>>
    /\ UNCHANGED caVars

\* lines 69-80: the cash outflow of the purchase
CashLine(rq) ==
    LedgerDoc(rq.rewardId, rq.body.userId, "COMPANY_CASH", "DEBIT",
              rq.body.stockSymbol, castDecimal128(rq.body.shares).v,
              InrValue(rq.body.shares, rq.price))

PostCashLine(r) ==
    LedgerEntryCreate(r, "line1", CashLine(req[r]),
                      castDecimal128(req[r].body.shares).ok,
                      [req[r] EXCEPT !.pc = "line2"])

\* lines 82-91
BrokerageLine(rq) ==
    LedgerDoc(rq.rewardId, rq.body.userId, "BROKERAGE_EXPENSE", "DEBIT",
              UNDEFINED, NoNum, Brokerage(rq.body.shares, rq.price))

PostBrokerageLine(r) ==
    LedgerEntryCreate(r, "line2", BrokerageLine(req[r]), TRUE,
                      [req[r] EXCEPT !.pc = "line3"])

\* lines 93-101
SttLine(rq) ==
    LedgerDoc(rq.rewardId, rq.body.userId, "STT_EXPENSE", "DEBIT",
              UNDEFINED, NoNum, Stt(rq.body.shares, rq.price))

PostSttLine(r) ==
    LedgerEntryCreate(r, "line3", SttLine(req[r]), TRUE,
                      [req[r] EXCEPT !.pc = "line4"])

\* (mutant) GST charged on the purchase value instead of on the brokerage
GstLineOnInrValue(rq) ==
    LedgerDoc(rq.rewardId, rq.body.userId, "GST_EXPENSE", "DEBIT",
              UNDEFINED, NoNum, RMul(InrValue(rq.body.shares, rq.price), gstRate))

\* lines 103-111
GstLine(rq) ==
    LedgerDoc(rq.rewardId, rq.body.userId, "GST_EXPENSE", "DEBIT",
              UNDEFINED, NoNum, Gst(rq.body.shares, rq.price))

PostGstLine(r) ==
    LedgerEntryCreate(r, "line4", GstLine(req[r]), TRUE,
                      [req[r] EXCEPT !.pc = "line5"])

\* lines 113-123: the credit of the user's portfolio
PortfolioLine(rq) ==
    LedgerDoc(rq.rewardId, rq.body.userId, "USER_PORTFOLIO", "CREDIT",
              rq.body.stockSymbol, castDecimal128(rq.body.shares).v, NoNum)

\* lines 113-144: the last line, then the 201 response
PostPortfolioLine(r) ==
    LedgerEntryCreate(r, "line5", PortfolioLine(req[r]),
                      castDecimal128(req[r].body.shares).ok,
                      Answered(req[r],
                               Resp(201, req[r].rewardId, "",
                                    TransactionDetails(req[r].body.shares, req[r].price))))

Next ==
    \/ \E r \in Requests, b \in Bodies : Receive(r, b)
    \/ \E r \in Requests : FindExisting(r)
    \/ \E r \in Requests : CreateEvent(r)
    \/ \E r \in Requests : PriceFind(r)
    \/ \E r \in Requests : PricePersist(r)
    \/ \E r \in Requests : PostCashLine(r)
    \/ \E r \in Requests : PostBrokerageLine(r)
    \/ \E r \in Requests : PostSttLine(r)
    \/ \E r \in Requests : PostGstLine(r)
    \/ \E r \in Requests : PostPortfolioLine(r)

Spec == Init /\ [][Next]_vars

(***************************************************************************)
(* validateTransaction: models/ledgerEntry.js                              *)
(***************************************************************************)
\* the LedgerEntry documents of a transaction
LinesOf(transactionId) ==
    {d \in BagToSet(ledger) : d.transactionId = transactionId}

\* the reduce of lines 98-104 over a set of documents of the ledger, each
\* counted as often as the collection holds it
\* (for a mutant) a line without a monetary amount counts with its stock
\* quantity
RECURSIVE SignedSumOfAnyPayload(_)
SignedSumOfAnyPayload(docs) ==
    IF docs = {} THEN Zero
    ELSE LET entry == CHOOSE d \in docs : TRUE
             amount == IF IsNum(entry.inrAmount) THEN entry.inrAmount
                       ELSE IF IsNum(entry.quantity) THEN entry.quantity ELSE Zero
             signed == IF entry.entryType = "DEBIT" THEN amount ELSE RNeg(amount)
         IN  RAdd(RMul(Rat(CopiesIn(entry, ledger), 1), signed),
                  SignedSumOfAnyPayload(docs \ {entry}))

RECURSIVE SignedSum(_)
SignedSum(docs) ==
    IF docs = {} THEN Zero
    ELSE LET entry == CHOOSE d \in docs : TRUE
             amount == IF IsNum(entry.inrAmount) THEN entry.inrAmount ELSE Zero
             signed == IF entry.entryType = "DEBIT" THEN amount ELSE RNeg(amount)
         IN  RAdd(RMul(Rat(CopiesIn(entry, ledger), 1), signed),
                  SignedSum(docs \ {entry}))

\* (mutant) validateTransaction over the sum that counts stock quantities
validateTransactionAnyPayload(transactionId) ==
    RLess(RAbs(SignedSumOfAnyPayload(LinesOf(transactionId))), Rat(1, 10000))

validateTransaction(transactionId) ==
    RLess(RAbs(SignedSum(LinesOf(transactionId))), Rat(1, 10000))

(***************************************************************************)
(* Corporate actions: models/stockCorporateAction.js and the documents the *)
(* corporate-action processor starts from                                  *)
(***************************************************************************)
ActionTypeEnum == {"STOCK_SPLIT", "STOCK_DIVIDEND", "MERGER", "DELISTING", "BONUS_ISSUE"}
ActionStatusEnum == {"ANNOUNCED", "PENDING", "PROCESSED", "CANCELLED"}

\* the `details` of a StockCorporateAction, every field absent
NoActionDetails ==
    [from |-> 0, to |-> 0, newStockSymbol |-> UNDEFINED,
     exchangeRatio |-> NoNum, finalPrice |-> NoNum]

\* a StockCorporateAction document; _id is the position in the collection
ActionDoc(stockSymbol, actionType, effectiveDate, details) ==
    [stockSymbol |-> UpperTrim(stockSymbol), actionType |-> actionType,
     effectiveDate |-> effectiveDate, details |-> details, status |-> "ANNOUNCED"]

\* the validators of stockCorporateActionSchema
ActionValid(doc) ==
    /\ ~Falsy(doc.stockSymbol)
    /\ doc.actionType \in ActionTypeEnum
    /\ doc.status \in ActionStatusEnum
    /\ (doc.actionType \in {"STOCK_SPLIT", "BONUS_ISSUE"} =>
            doc.details.from # 0 /\ doc.details.to # 0)
    /\ (doc.actionType = "MERGER" =>
            ~Falsy(doc.details.newStockSymbol) /\ IsNum(doc.details.exchangeRatio))
    /\ (doc.actionType = "DELISTING" => IsNum(doc.details.finalPrice))

\* a caller-supplied timestamp of a reward, earlier than the start of the system
EarlyTs == 60 * 1000
\* an effective date that has passed when the system starts
DueDate == 5 * 60 * 1000
\* what the clock advances by
TickMs == 1000
\* an effective date that is due once the clock has advanced
LaterDate == StartTime + TickMs

\* the corporate actions that are announced
SplitAction ==
    ActionDoc("RELIANCE", "STOCK_SPLIT", DueDate,
              [NoActionDetails EXCEPT !.from = 1, !.to = 2])
SplitLater ==
    ActionDoc("RELIANCE", "STOCK_SPLIT", LaterDate,
              [NoActionDetails EXCEPT !.from = 1, !.to = 2])
MergerAction ==
    ActionDoc("RELIANCE", "MERGER", DueDate,
              [NoActionDetails EXCEPT !.newStockSymbol = "NEWCO",
                                      !.exchangeRatio = Rat(1, 2)])
DelistingAction ==
    ActionDoc("RELIANCE", "DELISTING", DueDate,
              [NoActionDetails EXCEPT !.finalPrice = Rat(100, 1)])
ActionInputs == {SplitAction, SplitLater, MergerAction, DelistingAction}

\* an effective date after DueDate that has also passed when the system starts
NextDate == DueDate + TickMs
\* a second split of the symbol, 1:3, effective after the first
SplitNext ==
    ActionDoc("RELIANCE", "STOCK_SPLIT", NextDate,
              [NoActionDetails EXCEPT !.from = 1, !.to = 3])
\* a reverse split, 2:1
ReverseSplit ==
    ActionDoc("RELIANCE", "STOCK_SPLIT", DueDate,
              [NoActionDetails EXCEPT !.from = 2, !.to = 1])
\* an action of a type the schema lists and no handler exists for
BonusAction ==
    ActionDoc("RELIANCE", "BONUS_ISSUE", DueDate,
              [NoActionDetails EXCEPT !.from = 1, !.to = 1])

\* The StockCorporateAction collection after the announcements: one action
\* of each kind; an action announced twice; two actions of a symbol that are
\* due together; two actions inserted against the order of their dates; two
\* splits of a symbol, one after the other; a reverse split; a bonus issue.
Announced ==
    {<<a>> : a \in ActionInputs}
    \cup {<<DelistingAction, DelistingAction>>, <<SplitAction, MergerAction>>,
          <<SplitLater, DelistingAction>>}
    \cup {<<SplitAction, SplitNext>>, <<ReverseSplit>>, <<BonusAction>>}

\* The holdings the processor starts from are rewards createReward has
\* answered 201: the request body of each, and the price it was bought at.
HoldingBody(userId, shares, timestamp, idempotencyKey) ==
    [userId |-> userId, stockSymbol |-> "RELIANCE", shares |-> SharesNum(shares),
     timestamp |-> timestamp, idempotencyKey |-> idempotencyKey]
HoldingU1 == HoldingBody("u1", Rat(5, 2), TsAt(EarlyTs), "k1")
HoldingU2 == HoldingBody("u2", Rat(4, 1), TsAt(EarlyTs), "k2")
HoldingNew == HoldingBody("u1", Rat(5, 2), NoTs, "k3")
Holdings == {<< >>, <<HoldingU1>>, <<HoldingU1, HoldingU2>>, <<HoldingU1, HoldingNew>>}
\* ComputePrice(NoNum, "RELIANCE", 1/2): the first quote of the symbol
HoldingPrice == ComputePrice(NoNum, "RELIANCE", Rat(1, 2))

\* the five ledger lines createReward posted for the holding with _id `id`
HoldingLines(id, b) ==
    LET rq == [IdleReq EXCEPT !.rewardId = id, !.body = b, !.price = HoldingPrice]
    IN  {CashLine(rq), BrokerageLine(rq), SttLine(rq), GstLine(rq), PortfolioLine(rq)}

\* the stores and the cache after the intake of the holdings at StartTime,
\* with the corporate actions announced and no processor invocation yet
InitCA ==
    /\ now = StartTime
    /\ faults = 0
    /\ req = [r \in Requests |-> IdleReq]
    /\ runs = [r \in RunIds |-> IdleRun]
    /\ calls = [c \in CallIds |-> IdleCall]
    /\ actions \in Announced
    /\ \E hs \in Holdings :
          /\ rewards = [i \in 1 .. Len(hs) |-> NewRewardDoc(hs[i])]
          /\ ledger = SetToBag(UNION {HoldingLines(i, hs[i]) : i \in 1 .. Len(hs)})
          /\ priceHistory =
                IF hs = << >> THEN EmptyBag
                ELSE SetToBag({[stockSymbol |-> "RELIANCE", price |-> HoldingPrice,
                                fetchedAt |-> StartTime]})
          /\ priceCache =
                [s \in Symbols |->
                    IF hs = << >> THEN NoEntry
                    ELSE [price |-> HoldingPrice, timestamp |-> StartTime]]

(***************************************************************************)
(* The corporate-action processor: services/corporateActionService.js      *)
(***************************************************************************)
ActionIds == 1 .. Len(actions)

\* (mutant) the query for pending actions does not filter on the status
PendingFilterAnyStatus(a, t) == actions[a].effectiveDate <= t

\* the filter of getPendingCorporateActions at the time t (new Date()):
\* announced and due
PendingFilter(a, t) ==
    actions[a].status = "ANNOUNCED" /\ actions[a].effectiveDate <= t

\* getPendingCorporateActions: the lists find(..).sort({ effectiveDate: 1 })
\* may return (actions with the same effective date come in any order)
getPendingCorporateActions(t) ==
    LET due == {a \in ActionIds : PendingFilter(a, t)}
    IN  {l \in [1 .. Cardinality(due) -> due] :
            /\ \A i, j \in DOMAIN l : l[i] = l[j] => i = j
            /\ \A i, j \in DOMAIN l :
                  i < j => actions[l[i]].effectiveDate <= actions[l[j]].effectiveDate}

\* the action types the switch of processPendingCorporateActions has a case for
HasHandler(actionType) == actionType \in {"STOCK_SPLIT", "MERGER", "DELISTING"}

\* the loop passes over the actions the switch has no case for
RECURSIVE SkipUnhandled(_)
SkipUnhandled(pending) ==
    IF pending = << >> \/ HasHandler(actions[Head(pending)].actionType)
    THEN pending
    ELSE SkipUnhandled(Tail(pending))

\* the invocation ends: its locals are gone, what it has done stays recorded
EndRun(run, outcome) ==
    [run EXCEPT !.pc = "done", !.outcome = outcome, !.pending = << >>,
                !.action = 0, !.events = << >>, !.adjustment = 0]

\* the for-loop of processPendingCorporateActions goes on with `pending`: it
\* calls the handler of the next action, which runs up to its first await
\* (RewardEvent.find), or the run ends
Dispatch(run, pending) ==
    LET rest == SkipUnhandled(pending)
    IN  IF rest = << >> THEN EndRun(run, "resolved")
        ELSE [run EXCEPT !.pc = "find", !.pending = rest, !.action = Head(rest),
                         !.events = << >>, !.adjustment = 0,
                         !.handled = @ \cup {Head(rest)}]

\* a handler returns: to its caller, or to the loop (break)
Return(run) ==
    IF run.direct THEN EndRun(run, "resolved") ELSE Dispatch(run, Tail(run.pending))

\* a handler throws: the caller's promise rejects, or the catch block of the
\* loop sets action.status = "CANCELLED" and awaits action.save()
Throw(run) ==
    IF run.direct
    THEN EndRun([run EXCEPT !.failed = @ \cup {run.action}], "rejected")
    ELSE [run EXCEPT !.pc = "cancel", !.failed = @ \cup {run.action},
                     !.events = << >>, !.adjustment = 0]

ProcessedActions == {a \in ActionIds : actions[a].status = "PROCESSED"}

\* new Date() / Date.now(): the clock is read; it may have advanced since it
\* was last read
ClockReads ==
    {t \in {now + k * TickMs : k \in 0 .. MaxTicks} : t <= StartTime + MaxTicks * TickMs}

\* the invocations are numbered in the order in which they start
NextToStart(r) ==
    runs[r].pc = "idle" /\ \A q \in RunIds : q < r => runs[q].pc # "idle"

\* processPendingCorporateActions() is called: await getPendingCorporateActions()
\* and the start of the loop
processPendingCorporateActions(r) ==
    /\ NextToStart(r)
    /\ now' \in ClockReads
    /\ \/ /\ StoreFault
          /\ runs' = [runs EXCEPT ![r] =
                EndRun([runs[r] EXCEPT !.sawProcessed = ProcessedActions], "rejected")]
       \/ /\ UNCHANGED faults
          /\ \E pendingActions \in getPendingCorporateActions(now') :
                runs' = [runs EXCEPT ![r] =
                    Dispatch([runs[r] EXCEPT
                                !.sawProcessed = ProcessedActions,
                                !.listed = {pendingActions[i] : i \in DOMAIN pendingActions}],
                             pendingActions)]
    /\ UNCHANGED <<rewards, ledger, priceHistory, priceCache, req, calls, actions>>

\* processStockSplit / processMerger / processDelisting is called directly
\* with the symbol, the details and the effective date of the action a
InvokeHandler(r, a) ==
    /\ NextToStart(r)
    /\ HasHandler(actions[a].actionType)
    /\ runs' = [runs EXCEPT ![r] =
            [runs[r] EXCEPT !.direct = TRUE, !.pc = "find", !.action = a,
                            !.sawProcessed = ProcessedActions, !.handled = {a}]]
    /\ UNCHANGED <<rewards, ledger, priceHistory, priceCache, now, faults, req, calls, actions>>

\* the filter of RewardEvent.find in the handlers
MatchingEvents(a) ==
    {i \in 1 .. Len(rewards) :
        /\ rewards[i].stockSymbol = actions[a].stockSymbol
        /\ rewards[i].status = "ACTIVE"
        /\ rewards[i].timestamp < actions[a].effectiveDate}

\* the documents of a find without sort, in insertion order
InInsertionOrder(ids) ==
    CHOOSE l \in [1 .. Cardinality(ids) -> ids] :
        \A i, j \in DOMAIN l : i < j => l[i] < l[j]

\* the for-loop of a handler goes on with `events`: it runs up to the next
\* await, RewardEvent.create (split, merger) or event.save() (delisting), or,
\* after the loop, StockCorporateAction.updateOne
Iterate(run, events) ==
    IF events = << >>
    THEN [run EXCEPT !.pc = "updateOne", !.events = << >>, !.adjustment = 0]
    ELSE [run EXCEPT !.events = events, !.adjustment = 0,
                     !.pc = IF actions[run.action].actionType = "DELISTING"
                            THEN "save" ELSE "create"]

\* await RewardEvent.find({ stockSymbol, status: "ACTIVE", timestamp: { $lt } })
HandlerFind(r) ==
    /\ runs[r].pc = "find"
    /\ \/ StoreFault /\ runs' = [runs EXCEPT ![r] = Throw(runs[r])]
       \/ /\ UNCHANGED faults
          /\ runs' = [runs EXCEPT ![r] =
                Iterate(runs[r], InInsertionOrder(MatchingEvents(runs[r].action)))]
    /\ UNCHANGED <<rewards, ledger, priceHistory, priceCache, now, req, calls, actions>>

\* `${prefix}_${event._id}_${Date.now()}`
AdjustmentKey(prefix, eventId, t) ==
    prefix \o "_" \o ToString(eventId) \o "_" \o ToString(t)

\* newQuantity - originalQuantity of processStockSplit
SplitDelta(originalQuantity, from, to) ==
    LET splitRatio == RDiv(Rat(to, 1), Rat(from, 1))
        newQuantity == RMul(originalQuantity, splitRatio)
    IN  RSub(newQuantity, originalQuantity)

\* the document processStockSplit (lines 19-30) / processMerger (lines
\* 70-81) creates for the event e under the action a at the time t;
\* parseFloat(event.quantity.toString()) is the number the Decimal128 holds
AdjustmentDoc(a, e, t) ==
    LET action == actions[a]
        event == rewards[e]
    IN  IF action.actionType = "STOCK_SPLIT"
        THEN RewardDoc(event.userId, action.stockSymbol,
                       SplitDelta(event.quantity, action.details.from, action.details.to),
                       action.effectiveDate, AdjustmentKey("SPLIT", e, t),
                       "ADJUSTED", "STOCK_SPLIT", e, event.quantity)
        ELSE RewardDoc(event.userId, action.details.newStockSymbol,
                       RMul(event.quantity, action.details.exchangeRatio),
                       action.effectiveDate, AdjustmentKey("MERGER", e, t),
                       "ADJUSTED", "MERGER", e, event.quantity)

\* await RewardEvent.create(..) of processStockSplit and processMerger
CreateAdjustment(r) ==
    /\ runs[r].pc = "create"
    /\ now' \in ClockReads
    /\ \/ /\ StoreFault
          /\ runs' = [runs EXCEPT ![r] = Throw(runs[r])]
          /\ UNCHANGED rewards
       \/ /\ UNCHANGED faults
          /\ LET e == Head(runs[r].events)
                 doc == AdjustmentDoc(runs[r].action, e, now')
             IN  \E accepted \in MinZeroOutcomes(doc.quantity) :
                 IF CreateRewardError(doc) # "" \/ ~accepted
                 THEN runs' = [runs EXCEPT ![r] = Throw(runs[r])] /\ UNCHANGED rewards
                 ELSE /\ rewards' = Append(rewards, doc)
                      /\ runs' = [runs EXCEPT ![r] =
                            [runs[r] EXCEPT
                                !.pc = "save", !.adjustment = Len(rewards) + 1,
                                !.created = @ \cup {<<runs[r].action, e, Len(rewards) + 1>>}]]
    /\ UNCHANGED <<ledger, priceHistory, priceCache, req, calls, actions>>

\* (mutant) the handler writes the adjustment into the original event: it
\* overwrites the quantity and keeps the old one as originalQuantity
AdjustedInPlace(e, actionType) ==
    [rewards[e] EXCEPT !.status = "ADJUSTED", !.adjustmentReason = actionType,
                       !.parentRewardId = e, !.originalQuantity = rewards[e].quantity,
                       !.quantity = Zero]

\* event.status = "ADJUSTED"; event.adjustmentReason = ..: the document
\* event.save() validates and writes
Adjusted(e, actionType) ==
    [rewards[e] EXCEPT !.status = "ADJUSTED", !.adjustmentReason = actionType]

\* the ledger line a handler posts at the await `pc` for the event e
AdjustmentLine(run, pc) ==
    LET action == actions[run.action]
        event == rewards[Head(run.events)]
    IN  CASE action.actionType = "STOCK_SPLIT" ->
                LedgerDoc(run.adjustment, event.userId, "USER_PORTFOLIO", "CREDIT",
                          action.stockSymbol,
                          SplitDelta(event.quantity, action.details.from, action.details.to),
                          NoNum)
          [] action.actionType = "MERGER" /\ pc = "ledger1" ->
                LedgerDoc(run.adjustment, event.userId, "USER_PORTFOLIO", "DEBIT",
                          action.stockSymbol, event.quantity, NoNum)
          [] action.actionType = "MERGER" /\ pc = "ledger2" ->
                LedgerDoc(run.adjustment, event.userId, "USER_PORTFOLIO", "CREDIT",
                          action.details.newStockSymbol,
                          RMul(event.quantity, action.details.exchangeRatio), NoNum)
          [] action.actionType = "DELISTING" /\ pc = "ledger1" ->
                LedgerDoc(Head(run.events), event.userId, "USER_PORTFOLIO", "DEBIT",
                          action.stockSymbol, event.quantity, NoNum)
          [] OTHER ->
                LedgerDoc(Head(run.events), event.userId, "COMPANY_CASH", "CREDIT",
                          UNDEFINED, NoNum,
                          RMul(event.quantity, action.details.finalPrice))

\* The awaits of an iteration that apply the action to the holding:
\* await event.save(), then await LedgerEntry.create(..) once (split) or
\* twice (merger, delisting); after the last one the loop goes on.
\* event.save() runs the validators of rewardEventSchema on the event read
\* by find, which has no parentRewardId and no originalQuantity.
ApplyToHolding(r) ==
    /\ runs[r].pc \in {"save", "ledger1", "ledger2"}
    /\ \/ /\ StoreFault
          /\ runs' = [runs EXCEPT ![r] = Throw(runs[r])]
          /\ UNCHANGED <<rewards, ledger>>
       \/ /\ UNCHANGED faults
          /\ LET run == runs[r]
                 e == Head(run.events)
                 actionType == actions[run.action].actionType
                 line == AdjustmentLine(run, run.pc)
             IN  IF run.pc = "save"
                 THEN IF RewardEventValid(Adjusted(e, actionType))
                      THEN /\ rewards' = [rewards EXCEPT ![e] = Adjusted(e, actionType)]
                           /\ runs' = [runs EXCEPT ![r].pc = "ledger1"]
                           /\ UNCHANGED ledger
                      ELSE /\ runs' = [runs EXCEPT ![r] = Throw(run)]
                           /\ UNCHANGED <<rewards, ledger>>
                 ELSE \E accepted \in MinZeroOutcomes(line.quantity) :
                      IF ~LedgerEntryValid(line) \/ ~accepted
                      THEN /\ runs' = [runs EXCEPT ![r] = Throw(run)]
                           /\ UNCHANGED <<rewards, ledger>>
                      ELSE /\ ledger' = Insert(ledger, line)
                           /\ UNCHANGED rewards
                           /\ runs' = [runs EXCEPT ![r] =
                                 IF run.pc = "ledger1" /\ actionType # "STOCK_SPLIT"
                                 THEN [run EXCEPT !.pc = "ledger2"]
                                 ELSE Iterate(run, Tail(run.events))]
    /\ UNCHANGED <<priceHistory, priceCache, now, req, calls, actions>>

\* the document StockCorporateAction.updateOne(filter, ..) updates: the first
\* action with the symbol, the type and the effective date of the call
UpdateOneTarget(a) ==
    CHOOSE t \in ActionIds :
        /\ actions[t].stockSymbol = actions[a].stockSymbol
        /\ actions[t].actionType = actions[a].actionType
        /\ actions[t].effectiveDate = actions[a].effectiveDate
        /\ \A u \in ActionIds :
              /\ actions[u].stockSymbol = actions[a].stockSymbol
              /\ actions[u].actionType = actions[a].actionType
              /\ actions[u].effectiveDate = actions[a].effectiveDate
              => t <= u

\* after the loop of a handler: await StockCorporateAction.updateOne(..,
\* { status: "PROCESSED" }), then the handler returns
MarkProcessed(r) ==
    /\ runs[r].pc = "updateOne"
    /\ \/ /\ StoreFault
          /\ runs' = [runs EXCEPT ![r] = Throw(runs[r])]
          /\ UNCHANGED actions
       \/ /\ UNCHANGED faults
          /\ actions' = [actions EXCEPT ![UpdateOneTarget(runs[r].action)].status = "PROCESSED"]
          /\ runs' = [runs EXCEPT ![r] = Return(runs[r])]
    /\ UNCHANGED <<rewards, ledger, priceHistory, priceCache, now, req, calls>>

\* the catch block of processPendingCorporateActions: await action.save()
\* with status CANCELLED; the loop goes on, unless the save itself fails
CancelAction(r) ==
    /\ runs[r].pc = "cancel"
    /\ \/ /\ StoreFault
          /\ runs' = [runs EXCEPT ![r] = EndRun(runs[r], "rejected")]
          /\ UNCHANGED actions
       \/ /\ UNCHANGED faults
          /\ LET doc == [actions[runs[r].action] EXCEPT !.status = "CANCELLED"]
             IN  IF ActionValid(doc)
                 THEN /\ actions' = [actions EXCEPT ![runs[r].action] = doc]
                      /\ runs' = [runs EXCEPT ![r] = Dispatch(runs[r], Tail(runs[r].pending))]
                 ELSE /\ runs' = [runs EXCEPT ![r] = EndRun(runs[r], "rejected")]
                      /\ UNCHANGED actions
    /\ UNCHANGED <<rewards, ledger, priceHistory, priceCache, now, req, calls>>

NextCA ==
    \/ \E r \in RunIds : processPendingCorporateActions(r)
    \/ \E r \in RunIds, a \in ActionIds : InvokeHandler(r, a)
    \/ \E r \in RunIds : HandlerFind(r)
    \/ \E r \in RunIds : CreateAdjustment(r)
    \/ \E r \in RunIds : ApplyToHolding(r)
    \/ \E r \in RunIds : MarkProcessed(r)
    \/ \E r \in RunIds : CancelAction(r)

SpecCA == InitCA /\ [][NextCA]_vars

(***************************************************************************)
(* The price service called on its own: services/priceService.js           *)
(***************************************************************************)
\* a StockPriceHistory document ({ timestamps: { createdAt: 'fetchedAt' } })
Quote(stockSymbol, price, fetchedAt) ==
    [stockSymbol |-> stockSymbol, price |-> price, fetchedAt |-> fetchedAt]

\* a price close to the floor
LowPrice == Rat(101, 100)

\* What the price service starts from: nothing; the quote and the cache entry
\* of one earlier lookup at StartTime; the quotes of earlier days with an
\* empty cache (the process has restarted), the price of RELIANCE having
\* fallen close to the floor.
OracleSeeds ==
    {[history |-> EmptyBag, cache |-> [s \in Symbols |-> NoEntry]],
     [history |-> SetToBag({Quote("RELIANCE", HoldingPrice, StartTime)}),
      cache |-> [s \in Symbols |-> [price |-> HoldingPrice, timestamp |-> StartTime]]],
     [history |-> SetToBag({Quote("RELIANCE", HoldingPrice, EarlyTs),
                            Quote("RELIANCE", LowPrice, DueDate),
                            Quote("TCS", BasePrice("TCS"), StartTime)}),
      cache |-> [s \in Symbols |-> NoEntry]]}

InitPO ==
    /\ now = StartTime
    /\ faults = 0
    /\ rewards = << >>
    /\ ledger = EmptyBag
    /\ req = [r \in Requests |-> IdleReq]
    /\ actions = << >>
    /\ runs = [r \in RunIds |-> IdleRun]
    /\ calls = [c \in CallIds |-> IdleCall]
    /\ \E seed \in OracleSeeds :
          priceHistory = seed.history /\ priceCache = seed.cache

\* the `date` arguments of getPriceForDate: before every quote, the time of
\* the oldest quote, the start of the system
DateInputs == {0, EarlyTs, StartTime}

\* the values of the clock while the price service is called
OracleTimes ==
    {StartTime, StartTime + TickMs} \cup {StartTime + k * CACHE_TTL : k \in 1 .. MaxTicks}
\* the clock when getLatestPrice is entered: time may have passed since the
\* call before
OracleClockReads == {t \in OracleTimes : t >= now}

\* the calls are numbered in the order in which they start
NextCall(c) ==
    calls[c].pc = "idle" /\ \A q \in CallIds : q < c => calls[q].pc # "idle"

\* `cached && Date.now() - cached.timestamp < CACHE_TTL` with the clock at t
CacheHitAt(cached, t) == IsNum(cached.price) /\ t - cached.timestamp < CACHE_TTL

\* `return value`: the call ends, its promise resolves with the value (the
\* cache entry it had read is a local that is gone)
Returned(call, value) ==
    [call EXCEPT !.pc = "done", !.outcome = "returned", !.returned = value,
                 !.cached = NoEntry]

\* `throw`: the call ends, its promise rejects
Threw(call) == [call EXCEPT !.pc = "done", !.outcome = "threw", !.cached = NoEntry]

\* lines 30-36: getLatestPrice(stockSymbol) is entered with the clock at t
\* and runs up to its first await
EnterLatestPrice(call, stockSymbol, t) ==
    LET normalizedSymbol == UpperTrim(stockSymbol)
        cached == priceCache[normalizedSymbol]
        entered == [call EXCEPT !.symbol = normalizedSymbol, !.at = t, !.cached = cached]
    IN  IF CacheHitAt(cached, t)
        THEN Returned([entered EXCEPT !.quoteAt = cached.timestamp], cached.price)
        ELSE [entered EXCEPT !.pc = "find"]

\* lines 74-84: the catch block of getLatestPrice
LatestPriceCatch(call) ==
    IF IsNum(call.cached.price)
    THEN Returned([call EXCEPT !.quoteAt = call.cached.timestamp], call.cached.price)
    ELSE Threw(call)

\* getLatestPrice(stockSymbol) is called
getLatestPrice(c, stockSymbol) ==
    /\ NextCall(c)
    /\ now' \in OracleClockReads
    /\ calls' = [calls EXCEPT ![c] =
            EnterLatestPrice([IdleCall EXCEPT !.op = "getLatestPrice"], stockSymbol, now')]
    /\ UNCHANGED <<rewards, ledger, priceHistory, priceCache, faults, req, actions, runs>>

\* lines 40-65: await StockPriceHistory.findOne(..).sort(..), the price
\* computation and priceCache.set(.., { price, timestamp: Date.now() })
LatestPriceFind(c) ==
    /\ calls[c].pc = "find"
    /\ \/ /\ StoreFault
          /\ calls' = [calls EXCEPT ![c] = LatestPriceCatch(calls[c])]
          /\ UNCHANGED <<priceCache, now>>
       \/ /\ UNCHANGED <<faults, now>>
          /\ \E random \in RandomSamples :
             \E lastPrice \in IF LatestQuotes(calls[c].symbol) = {} THEN {NoNum}
                              ELSE {q.price : q \in LatestQuotes(calls[c].symbol)} :
                LET price == ComputePrice(lastPrice, calls[c].symbol, random)
                IN  /\ priceCache' = [priceCache EXCEPT ![calls[c].symbol] =
                                         [price |-> price, timestamp |-> now]]
                    /\ calls' = [calls EXCEPT ![c] =
                            [@ EXCEPT !.pc = "persist", !.price = price, !.quoteAt = now]]
    /\ UNCHANGED <<rewards, ledger, priceHistory, req, actions, runs>>

\* (mutant) the new price is returned without being persisted
LatestPriceNotPersisted(c) ==
    /\ calls[c].pc = "persist"
    /\ calls' = [calls EXCEPT ![c] = Returned(calls[c], calls[c].price)]
    /\ UNCHANGED <<rewards, ledger, priceHistory, priceCache, now, faults, req, actions, runs>>

\* lines 67-73: await StockPriceHistory.create(..), return price
LatestPricePersist(c) ==
    /\ calls[c].pc = "persist"
    /\ \/ /\ StoreFault
          /\ calls' = [calls EXCEPT ![c] = LatestPriceCatch(calls[c])]
          /\ UNCHANGED <<priceHistory, now>>
       \/ /\ UNCHANGED <<faults, now>>
          /\ priceHistory' = Insert(priceHistory,
                                    Quote(calls[c].symbol, calls[c].price, now))
          /\ calls' = [calls EXCEPT ![c] = Returned(calls[c], calls[c].price)]
    /\ UNCHANGED <<rewards, ledger, priceCache, req, actions, runs>>

\* lines 112-118: getPriceForDate(stockSymbol, date) is called and runs up to
\* its await
getPriceForDate(c, stockSymbol, date) ==
    /\ NextCall(c)
    /\ calls' = [calls EXCEPT ![c] =
            [IdleCall EXCEPT !.op = "getPriceForDate", !.pc = "dateFind",
                             !.symbol = UpperTrim(stockSymbol), !.date = date]]
    /\ UNCHANGED <<rewards, ledger, priceHistory, priceCache, now, faults, req, actions, runs>>

\* (mutant) the query of getPriceForDate does not filter on fetchedAt
QuotesAsOfAnyDate(symbol, date) == LatestQuotes(symbol)

\* StockPriceHistory.findOne({ stockSymbol, fetchedAt: { $lte: date } })
\* .sort({ fetchedAt: -1 }): the quotes the query may return
QuotesAsOf(symbol, date) ==
    {q \in BagToSet(priceHistory) :
        /\ q.stockSymbol = symbol
        /\ q.fetchedAt <= date
        /\ \A p \in BagToSet(priceHistory) :
              p.stockSymbol = symbol /\ p.fetchedAt <= date => p.fetchedAt <= q.fetchedAt}

\* lines 115-125: the await of getPriceForDate; without a record the call
\* goes on as getLatestPrice(normalizedSymbol).  The function has no catch:
\* a failure of the query rejects the call.
PriceForDateFind(c) ==
    /\ calls[c].pc = "dateFind"
    /\ \/ /\ StoreFault
          /\ calls' = [calls EXCEPT ![c] = Threw(calls[c])]
          /\ UNCHANGED now
       \/ /\ UNCHANGED faults
          /\ LET found == QuotesAsOf(calls[c].symbol, calls[c].date)
             IN  IF found # {}
                 THEN /\ \E priceRecord \in found :
                            calls' = [calls EXCEPT ![c] = Returned(calls[c], priceRecord.price)]
                      /\ UNCHANGED now
                 ELSE /\ now' \in OracleClockReads
                      /\ calls' = [calls EXCEPT ![c] =
                              EnterLatestPrice(calls[c], calls[c].symbol, now')]
    /\ UNCHANGED <<rewards, ledger, priceHistory, priceCache, req, actions, runs>>

NextPO ==
    \/ \E c \in CallIds, s \in SymbolInputs \ {UNDEFINED} : getLatestPrice(c, s)
    \/ \E c \in CallIds : LatestPriceFind(c)
    \/ \E c \in CallIds : LatestPricePersist(c)
    \/ \E c \in CallIds, s \in SymbolInputs \ {UNDEFINED}, d \in DateInputs :
          getPriceForDate(c, s, d)
    \/ \E c \in CallIds : PriceForDateFind(c)

SpecPO == InitPO /\ [][NextPO]_vars

(***************************************************************************)
(* validateTransaction called on a ledger: models/ledgerEntry.js           *)
(***************************************************************************)
\* The lines the ledger is made of.  Under transaction 1: a cash debit and
\* the cash credit that balances it, an expense debit below the tolerance,
\* one of exactly the tolerance, and two lines that carry a stock quantity
\* only; under transaction 2: a cash debit.
LineInputs ==
    {LedgerDoc(1, "u1", "COMPANY_CASH", "DEBIT", UNDEFINED, NoNum, Rat(100, 1)),
     LedgerDoc(1, "u1", "COMPANY_CASH", "CREDIT", UNDEFINED, NoNum, Rat(100, 1)),
     LedgerDoc(1, "u1", "BROKERAGE_EXPENSE", "DEBIT", UNDEFINED, NoNum, Rat(1, 20000)),
     LedgerDoc(1, "u1", "STT_EXPENSE", "DEBIT", UNDEFINED, NoNum, Rat(1, 10000)),
     LedgerDoc(1, "u1", "USER_PORTFOLIO", "CREDIT", "RELIANCE", Rat(5, 2), NoNum),
     LedgerDoc(1, "u1", "USER_PORTFOLIO", "DEBIT", "RELIANCE", Rat(4, 1), NoNum),
     LedgerDoc(2, "u1", "COMPANY_CASH", "DEBIT", UNDEFINED, NoNum, Rat(100, 1))}

\* the line a ledger may hold twice (two documents with the same content)
TwiceInputs ==
    {LedgerDoc(1, "u1", "COMPANY_CASH", "DEBIT", UNDEFINED, NoNum, Rat(100, 1))}

\* the transaction identifiers validateTransaction is called with (3: a
\* transaction without lines)
TransactionInputs == {1, 2, 3}

InitVT ==
    /\ now = StartTime
    /\ faults = 0
    /\ rewards = << >>
    /\ priceHistory = EmptyBag
    /\ priceCache = [s \in Symbols |-> NoEntry]
    /\ req = [r \in Requests |-> IdleReq]
    /\ actions = << >>
    /\ runs = [r \in RunIds |-> IdleRun]
    /\ calls = [c \in CallIds |-> IdleCall]
    /\ \E once \in SUBSET LineInputs :
       \E twice \in SUBSET (TwiceInputs \cap once) :
          ledger = SetToBag(once) (+) SetToBag(twice)

\* LedgerEntry.validateTransaction(transactionId) is called: await
\* this.find({ transactionId }), the reduce and the comparison
validateTransactionCall(c, transactionId) ==
    /\ NextCall(c)
    /\ \/ /\ StoreFault
          /\ calls' = [calls EXCEPT ![c] =
                Threw([IdleCall EXCEPT !.op = "validateTransaction",
                                       !.transactionId = transactionId])]
       \/ /\ UNCHANGED faults
          /\ calls' = [calls EXCEPT ![c] =
                [IdleCall EXCEPT !.op = "validateTransaction", !.pc = "done",
                                 !.transactionId = transactionId,
                                 !.outcome = "returned",
                                 !.valid = validateTransaction(transactionId)]]
    /\ UNCHANGED <<rewards, ledger, priceHistory, priceCache, now, req, actions, runs>>

NextVT ==
    \E c \in CallIds, t \in TransactionInputs : validateTransactionCall(c, t)

SpecVT == InitVT /\ [][NextVT]_vars

(***************************************************************************)
(* Rewards that arrive while corporate actions are processed               *)
(***************************************************************************)
\* the createReward invocations that arrive while corporate actions are
\* processed
ArrivingRequests == 1 .. MaxArrivals

\* the request body that arrives: a reward with a caller-supplied timestamp
\* earlier than the effective dates (`timestamp || new Date()`)
ArrivingBodies ==
    {[BaseBody EXCEPT !.timestamp = TsAt(EarlyTs), !.idempotencyKey = "k4"]}

\* the announcements the rewards arrive under: one action with a handler
ArrivalAnnounced == {<<SplitAction>>, <<MergerAction>>, <<DelistingAction>>}

\* the stores of InitCA with one announced action and at most one holding
InitRA ==
    /\ InitCA
    /\ actions \in ArrivalAnnounced
    /\ Len(rewards) <= 1

NextRA ==
    \/ \E r \in ArrivingRequests, b \in ArrivingBodies : Receive(r, b)
    \/ \E r \in ArrivingRequests : FindExisting(r)
    \/ \E r \in ArrivingRequests : CreateEvent(r)
    \/ \E r \in ArrivingRequests : PriceFind(r)
    \/ \E r \in ArrivingRequests : PricePersist(r)
    \/ \E r \in ArrivingRequests : PostCashLine(r)
    \/ \E r \in ArrivingRequests : PostBrokerageLine(r)
    \/ \E r \in ArrivingRequests : PostSttLine(r)
    \/ \E r \in ArrivingRequests : PostGstLine(r)
    \/ \E r \in ArrivingRequests : PostPortfolioLine(r)
    \/ \E r \in RunIds : processPendingCorporateActions(r)
    \/ \E r \in RunIds, a \in ActionIds : InvokeHandler(r, a)
    \/ \E r \in RunIds : HandlerFind(r)
    \/ \E r \in RunIds : CreateAdjustment(r)
    \/ \E r \in RunIds : ApplyToHolding(r)
    \/ \E r \in RunIds : MarkProcessed(r)
    \/ \E r \in RunIds : CancelAction(r)

SpecRA == InitRA /\ [][NextRA]_vars

(***************************************************************************)
(* Properties                                                              *)
(***************************************************************************)
RewardIds == 1 .. Len(rewards)
Answered201(r) == req[r].pc = "done" /\ req[r].resp.status = 201
\* the store keeps exactly one copy of each document of the set
EachOnce(docs) == \A d \in docs : CopiesIn(d, ledger) = 1
\* the line of a transaction on an account ({} when there is none)
LinesOn(transactionId, account) ==
    {d \in LinesOf(transactionId) : d.account = account}

\* C1: in every reachable state, whatever the interleaving of concurrent
\* createReward invocations carrying the same idempotency key, no two reward
\* records have the same idempotency key.
C1_KeyUnique ==
    \A i, j \in RewardIds :
        rewards[i].idempotencyKey = rewards[j].idempotencyKey => i = j

\* C1 witness: two invocations with the same key raced past the lookup: one
\* committed the record, the insert of the other was refused by the index.
C1_RaceHappened ==
    \E r \in Requests :
        /\ req[r].pc = "done"
        /\ req[r].resp.error = "duplicate key error"
        /\ KeyTaken(req[r].body.idempotencyKey)

\* C2 (as claimed): of the callers that submitted the same idempotency key,
\* at most one is answered 201 and no caller is answered with an error
\* caused by the uniqueness conflict (the losers of the race are answered 200
\* with the committed record).
C2_RaceLosersGet200 ==
    /\ \A r \in Requests :
          req[r].pc = "done" => req[r].resp.error # "duplicate key error"
    /\ \A r1, r2 \in Requests :
          /\ Answered201(r1) /\ Answered201(r2)
          /\ req[r1].body.idempotencyKey = req[r2].body.idempotencyKey
          => r1 = r2

C4_NoRewardAfterPriceFailure ==
    \A r \in Requests :
        /\ req[r].pc = "done"
        /\ req[r].resp.error \in {"Unable to fetch price", "Invalid stock price fetched."}
        => /\ ~KeyTaken(req[r].body.idempotencyKey)
           /\ LinesOf(req[r].resp.rewardId) = {}

\* the reward event is the one an invocation still running has created
InFlight(i) == \E r \in Requests : req[r].pc # "done" /\ req[r].rewardId = i

\* C5 (as claimed): once the invocation that created a reward event has
\* finished, the store holds the event together with all five of its ledger
\* lines (never an event with none or only some of them).
C5_RewardWithAllLinesOrNothing ==
    \A i \in RewardIds :
        ~InFlight(i) =>
            /\ Cardinality(LinesOf(i)) = 5
            /\ EachOnce(LinesOf(i))

\* C6 (as claimed): for every reward the intake has answered 201,
\* validateTransaction(reward identifier) is true.
C6_PostedTransactionBalances ==
    \A r \in Requests :
        Answered201(r) => validateTransaction(req[r].resp.rewardId)

\* a shares value that is a number: a JavaScript number, or a string that is
\* a decimal literal as a whole (Number(x) is not NaN)
IsNumeric(x) == x.t = "number" \/ (x.t = "string" /\ x.hasNum /\ ~x.junk)

\* what the request body must satisfy not to be rejected, as claimed
AcceptableBody(b) ==
    /\ ~Falsy(b.userId)
    /\ ~Falsy(b.stockSymbol)
    /\ IsNumeric(b.shares)
    /\ b.shares.v.n > 0

\* C7 (as claimed): a request with a missing userId, a missing stockSymbol,
\* or shares that are missing, not a number, zero or negative never gets past
\* the validation: no invocation with such a body is running, and nothing is
\* written for it.
C7_InvalidRejectedBeforeWrite ==
    \A r \in Requests :
        req[r].pc \notin {"idle", "done"} => AcceptableBody(req[r].body)

C9_LedgerAmountsEqualBreakdown ==
    \A r \in Requests :
        Answered201(r) =>
            LET id == req[r].resp.rewardId
                details == req[r].resp.details
            IN  /\ \A d \in LinesOn(id, "COMPANY_CASH") :
                      d.inrAmount = Fixed4Value(details.inrValue)
                /\ \A d \in LinesOn(id, "BROKERAGE_EXPENSE") :
                      d.inrAmount = Fixed4Value(details.brokerage)
                /\ \A d \in LinesOn(id, "STT_EXPENSE") :
                      d.inrAmount = Fixed4Value(details.stt)
                /\ \A d \in LinesOn(id, "GST_EXPENSE") :
                      d.inrAmount = Fixed4Value(details.gst)

\* C10 (as claimed): every ledger line carries exactly one payload: a
\* USER_PORTFOLIO line a (symbol, quantity) pair and no monetary amount, a
\* line of any other account a monetary amount and no symbol or quantity.
C10_ExactlyOnePayload ==
    \A d \in BagToSet(ledger) :
        IF d.account = "USER_PORTFOLIO"
        THEN d.stockSymbol # UNDEFINED /\ IsNum(d.quantity) /\ ~IsNum(d.inrAmount)
        ELSE IsNum(d.inrAmount) /\ d.stockSymbol = UNDEFINED /\ ~IsNum(d.quantity)

(***************************************************************************)
(* Properties of the corporate-action processor                            *)
(***************************************************************************)
\* C11: in every reachable state, every RewardEvent whose status is not
\* ACTIVE carries an adjustment reason, and every RewardEvent whose status is
\* ADJUSTED or REFUNDED references a parent event (a save that would flip an
\* original event to ADJUSTED without a parent does not reach the store).
C11_NonActiveHasReasonAndParent ==
    \A i \in RewardIds :
        /\ rewards[i].status # "ACTIVE" => rewards[i].adjustmentReason # UNDEFINED
        /\ rewards[i].status \in {"ADJUSTED", "REFUNDED"} =>
              rewards[i].parentRewardId \in RewardIds

\* C11 witness: a handler has created an ADJUSTED event for an original
\* event and has then tried to flip the original (its save was refused).
C11_HandlerAdjusted ==
    \E r \in RunIds : \E c \in runs[r].created :
        /\ rewards[c[3]].status = "ADJUSTED"
        /\ c[1] \in runs[r].failed
        /\ faults = 0

\* the ledger lines of a transaction, each counted as often as it is stored
NumLines(transactionId) ==
    Cardinality(LinesOf(transactionId)) +
    Cardinality({d \in LinesOf(transactionId) : CopiesIn(d, ledger) > 1})

\* the invocation r was the only one, it has ended and no store operation
\* failed for a reason outside the program
RanAlone(r) ==
    /\ runs[r].pc = "done"
    /\ faults = 0
    /\ \A q \in RunIds \ {r} : runs[q].pc = "idle"

\* the holdings the action a applies to when no action has been applied yet
HoldingsBefore(a) ==
    {e \in RewardIds :
        /\ rewards[e].parentRewardId = 0
        /\ rewards[e].stockSymbol = actions[a].stockSymbol
        /\ rewards[e].timestamp < actions[a].effectiveDate}

\* C12 (as claimed): when processStockSplit has ended, then for every event
\* it created an adjustment for: the adjustment is ADJUSTED, holds
\* delta = q*(to/from) - q and has the original as parent; original plus
\* delta is q*(to/from); the original is flipped to ADJUSTED; exactly one
\* ledger line is posted under the adjustment, a USER_PORTFOLIO credit of
\* delta.
C12_SplitAdjustsHolding ==
    \A r \in RunIds : \A c \in runs[r].created :
        /\ runs[r].pc = "done"
        /\ faults = 0
        /\ actions[c[1]].actionType = "STOCK_SPLIT"
        => LET action == actions[c[1]]
               original == rewards[c[2]]
               adjustment == rewards[c[3]]
               delta == SplitDelta(original.quantity, action.details.from, action.details.to)
           IN  /\ adjustment.status = "ADJUSTED"
               /\ adjustment.quantity = delta
               /\ adjustment.parentRewardId = c[2]
               /\ RAdd(original.quantity, delta) =
                     RMul(original.quantity,
                          RDiv(Rat(action.details.to, 1), Rat(action.details.from, 1)))
               /\ original.status = "ADJUSTED"
               /\ NumLines(c[3]) = 1
               /\ \A d \in LinesOf(c[3]) :
                     /\ d.account = "USER_PORTFOLIO"
                     /\ d.entryType = "CREDIT"
                     /\ d.quantity = delta

\* C13 (as claimed): after one processStockSplit call, every user with
\* exactly one holding of the symbol dated before the effective date has
\* exactly one ADJUSTED RewardEvent of the symbol, and its quantity is the
\* additional shares.
C13_OneAdjustedEventPerUser ==
    \A r \in RunIds : \A a \in runs[r].handled :
        /\ RanAlone(r)
        /\ runs[r].handled = {a}
        /\ actions[a].actionType = "STOCK_SPLIT"
        => \A e \in HoldingsBefore(a) :
              LET user == rewards[e].userId
                  adjusted == {i \in RewardIds :
                                  /\ rewards[i].userId = user
                                  /\ rewards[i].stockSymbol = actions[a].stockSymbol
                                  /\ rewards[i].status = "ADJUSTED"}
              IN  (\A f \in HoldingsBefore(a) : rewards[f].userId = user => f = e)
                  => /\ Cardinality(adjusted) = 1
                     /\ \A i \in adjusted :
                           rewards[i].quantity =
                              SplitDelta(rewards[e].quantity, actions[a].details.from,
                                         actions[a].details.to)

\* C14 (as claimed): when processMerger has ended, then for every event it
\* created a merger event for: the merger event is of newSymbol, holds
\* old*ratio and has the old event as parent; the old event is flipped to
\* ADJUSTED; under the merger event's identifier exactly two lines are
\* posted, a USER_PORTFOLIO debit of the old quantity in oldSymbol and a
\* USER_PORTFOLIO credit of the new quantity in newSymbol.
C14_MergerConvertsHolding ==
    \A r \in RunIds : \A c \in runs[r].created :
        /\ runs[r].pc = "done"
        /\ faults = 0
        /\ actions[c[1]].actionType = "MERGER"
        => LET action == actions[c[1]]
               old == rewards[c[2]]
               merged == rewards[c[3]]
               newQuantity == RMul(old.quantity, action.details.exchangeRatio)
           IN  /\ merged.stockSymbol = action.details.newStockSymbol
               /\ merged.quantity = newQuantity
               /\ merged.parentRewardId = c[2]
               /\ old.status = "ADJUSTED"
               /\ NumLines(c[3]) = 2
               /\ \E debit, credit \in LinesOf(c[3]) :
                     /\ debit.account = "USER_PORTFOLIO" /\ debit.entryType = "DEBIT"
                     /\ debit.stockSymbol = action.stockSymbol
                     /\ debit.quantity = old.quantity
                     /\ credit.account = "USER_PORTFOLIO" /\ credit.entryType = "CREDIT"
                     /\ credit.stockSymbol = action.details.newStockSymbol
                     /\ credit.quantity = newQuantity

\* C15 (as claimed): after one processDelisting call, every holding of the
\* symbol dated before the effective date is ADJUSTED with reason DELISTING,
\* a USER_PORTFOLIO debit of its quantity and a COMPANY_CASH credit of
\* quantity * finalPrice are posted under its identifier, and no RewardEvent
\* has been created.
C15_DelistingPaysOut ==
    \A r \in RunIds : \A a \in runs[r].handled :
        /\ RanAlone(r)
        /\ runs[r].handled = {a}
        /\ actions[a].actionType = "DELISTING"
        => /\ \A i \in RewardIds : rewards[i].parentRewardId = 0
           /\ \A e \in HoldingsBefore(a) :
                 /\ rewards[e].status = "ADJUSTED"
                 /\ rewards[e].adjustmentReason = "DELISTING"
                 /\ \E debit, credit \in LinesOf(e) :
                       /\ debit.account = "USER_PORTFOLIO" /\ debit.entryType = "DEBIT"
                       /\ debit.quantity = rewards[e].quantity
                       /\ credit.account = "COMPANY_CASH" /\ credit.entryType = "CREDIT"
                       /\ credit.inrAmount =
                             RMul(rewards[e].quantity, actions[a].details.finalPrice)

\* C16 (as claimed): the status of a corporate action only ever changes from
\* ANNOUNCED to PROCESSED or from ANNOUNCED to CANCELLED.
C16_StatusOnlyLeavesAnnounced ==
    [][\A a \in ActionIds :
          actions'[a].status # actions[a].status
          => /\ actions[a].status = "ANNOUNCED"
             /\ actions'[a].status \in {"PROCESSED", "CANCELLED"}]_vars

\* the actions a processPendingCorporateActions run has listed, called the
\* handler of, or created or cancelled something for
TouchedBy(r) ==
    runs[r].listed \cup runs[r].handled \cup runs[r].failed
        \cup {c[1] : c \in runs[r].created}

\* C17: a processPendingCorporateActions run that starts when an action is
\* PROCESSED does not list that action, does not call its handler, creates
\* no RewardEvent for it and does not cancel it; the only actions a run works
\* on are the ones it listed.
C17_ProcessedNotReapplied ==
    \A r \in RunIds :
        ~runs[r].direct =>
            /\ TouchedBy(r) \cap runs[r].sawProcessed = {}
            /\ TouchedBy(r) \subseteq runs[r].listed
            /\ runs[r].pc \notin {"idle", "done"} => runs[r].action \in runs[r].listed

\* C17 witness: a run that started after an action had been marked PROCESSED
\* has ended, and the action is still PROCESSED.
C17_RerunAfterProcessed ==
    \E r \in RunIds :
        /\ ~runs[r].direct
        /\ runs[r].pc = "done"
        /\ runs[r].outcome = "resolved"
        /\ runs[r].sawProcessed # {}
        /\ runs[r].sawProcessed \subseteq ProcessedActions

\* C18 (as claimed): at most one adjustment event exists per (action,
\* original event) pair, however often the handler of the action is invoked.
C18_OneAdjustmentPerActionAndEvent ==
    \A r1, r2 \in RunIds :
        \A c1 \in runs[r1].created, c2 \in runs[r2].created :
            faults = 0 /\ c1[1] = c2[1] /\ c1[2] = c2[2] => c1[3] = c2[3]

\* the processPendingCorporateActions run r is working on an action
Working(r) == ~runs[r].direct /\ runs[r].pc \notin {"idle", "done"}

\* C19 (as claimed): no action is applied by two runs of
\* processPendingCorporateActions, and two runs never work on actions of the
\* same symbol at the same time.
C19_RunsDoNotOverlap ==
    \A r1, r2 \in RunIds :
        r1 # r2 /\ ~runs[r1].direct /\ ~runs[r2].direct
        => /\ runs[r1].handled \cap runs[r2].handled = {}
           /\ Working(r1) /\ Working(r2)
              => actions[runs[r1].action].stockSymbol
                    # actions[runs[r2].action].stockSymbol

\* C20 (as claimed): when a processPendingCorporateActions run that no other
\* invocation interferes with has ended, the handler of every action it
\* listed has been called and every action whose handler failed is
\* CANCELLED (so that no later run lists it again).
C20_FailureIsolated ==
    \A r \in RunIds :
        /\ ~runs[r].direct
        /\ runs[r].pc = "done"
        /\ runs[r].listed # {}
        /\ \A q \in RunIds \ {r} : runs[q].pc = "idle"
        => /\ runs[r].listed \subseteq runs[r].handled
           /\ \A a \in runs[r].failed : actions[a].status = "CANCELLED"


\* the invocation whose step this is, when it is a run of
\* processPendingCorporateActions
StepOfRun(r) == runs'[r] # runs[r] /\ ~runs'[r].direct

\* C21 (as claimed): a processPendingCorporateActions run calls a handler
\* only for an action that is ANNOUNCED and due when the handler is called,
\* and calls the handlers in ascending order of effectiveDate; an action that
\* is not ANNOUNCED or not yet due keeps its status, and no reward event and
\* no ledger line is made for it.
C21_OnlyAnnouncedDueInOrder ==
    [][\A r \in RunIds :
          StepOfRun(r) =>
             /\ \A a \in runs'[r].handled \ runs[r].handled :
                   /\ actions'[a].status = "ANNOUNCED"
                   /\ actions'[a].effectiveDate <= now'
                   /\ \A b \in runs[r].handled :
                         actions[b].effectiveDate <= actions[a].effectiveDate
             /\ \A a \in ActionIds :
                   actions[a].status # "ANNOUNCED" \/ actions[a].effectiveDate > now'
                   => /\ actions'[a].status = actions[a].status
                      /\ \A c \in runs'[r].created \ runs[r].created : c[1] # a
                      /\ ledger' # ledger => runs[r].action # a]_vars


\* the event e takes part in the action a: ACTIVE, of the action's symbol,
\* dated before the effective date
TakesPart(e, a) ==
    /\ rewards[e].status = "ACTIVE"
    /\ rewards[e].stockSymbol = actions[a].stockSymbol
    /\ rewards[e].timestamp < actions[a].effectiveDate

\* the adjustment events created so far, as <<action, original, adjustment>>
AllCreated == UNION {runs[r].created : r \in RunIds}

\* C22 (as claimed): a handler creates an adjustment for, changes, or posts
\* a ledger line for an event only if the event is ACTIVE, of the action's
\* symbol and dated before the effective date; in particular no event is
\* adjusted by two actions.
C22_OnlyActiveTakePart ==
    [][\A r \in RunIds :
          runs'[r] # runs[r] =>
             /\ \A c \in runs'[r].created \ runs[r].created : TakesPart(c[2], c[1])
             /\ \A e \in RewardIds :
                   rewards'[e] # rewards[e] => TakesPart(e, runs[r].action)
             /\ ledger' # ledger => TakesPart(Head(runs[r].events), runs[r].action)
             /\ \A c \in runs'[r].created \ runs[r].created :
                   \A d \in AllCreated : d[2] = c[2] => d[1] = c[1]]_vars


\* C23: no step of createReward or of the corporate-action service removes a
\* RewardEvent or changes the user, symbol, quantity, timestamp or key of an
\* existing one: the collection only grows, and of an existing event only
\* the status and the adjustment metadata (reason, parent, original
\* quantity) may change.
C23_EventsOnlyGrow ==
    [][/\ Len(rewards') >= Len(rewards)
       /\ \A e \in RewardIds :
             rewards'[e] = [rewards[e] EXCEPT
                               !.status = rewards'[e].status,
                               !.adjustmentReason = rewards'[e].adjustmentReason,
                               !.parentRewardId = rewards'[e].parentRewardId,
                               !.originalQuantity = rewards'[e].originalQuantity]]_vars

\* C23 witness: a handler has run to its end on a holding: it has added an
\* adjustment event for the holding and tried to flip the holding, whose
\* quantity and symbol are what createReward stored.
C23_HandlerRanOnHolding ==
    \E r \in RunIds :
        /\ runs[r].pc = "done"
        /\ runs[r].created # {}
        /\ \A c \in runs[r].created :
              /\ c[3] > c[2]
              /\ rewards[c[2]].quantity = parseFloat(HoldingU1.shares).v
              /\ rewards[c[2]].stockSymbol = "RELIANCE"


(***************************************************************************)
(* Properties of the reward intake, continued                              *)
(***************************************************************************)
\* C30 (as claimed): a createReward request with a valid userId, stockSymbol
\* and positive shares but without an idempotencyKey is recorded: when no
\* store operation fails for an outside reason it is answered 201 and its
\* reward event and five ledger lines are in the store.  (Of the request
\* bodies of the model, the one without a key is valid in every other field.)
C30_KeyOptional ==
    \A r \in Requests :
        /\ req[r].pc = "done"
        /\ req[r].body.idempotencyKey = UNDEFINED
        /\ faults = 0
        => /\ req[r].resp.status = 201
           /\ req[r].resp.rewardId \in RewardIds
           /\ Cardinality(LinesOf(req[r].resp.rewardId)) = 5


(***************************************************************************)
(* Properties of the price service                                         *)
(***************************************************************************)
\* the call c is a call of getLatestPrice that has returned a value
GotLatestPrice(c) ==
    /\ calls[c].op = "getLatestPrice"
    /\ calls[c].pc = "done"
    /\ calls[c].outcome = "returned"

\* C24 (as claimed): when a getLatestPrice call has returned the price of a
\* cache entry (one it found or one it made), every call for the same symbol
\* that starts after it and less than CACHE_TTL after the entry's timestamp
\* returns the same value and computes no price of its own (and so persists
\* no quote), also when the two calls overlap.  (Calls are numbered in the
\* order in which they start, and a getLatestPrice call reads the cache when
\* it starts.)  Stated for runs in which no store operation fails.
C24_SameValueWithinTTL ==
    \A c, d \in CallIds :
        /\ faults = 0
        /\ c < d
        /\ GotLatestPrice(c) /\ GotLatestPrice(d)
        /\ calls[c].symbol = calls[d].symbol
        /\ calls[c].quoteAt >= 0
        /\ calls[d].at - calls[c].quoteAt < CACHE_TTL
        => /\ calls[d].returned = calls[c].returned
           /\ ~IsNum(calls[d].price)

\* the step is a failure of a store operation of the lookup of the call c
LookupFails(c) ==
    /\ calls[c].pc \in {"find", "persist"}
    /\ calls'[c] # calls[c]
    /\ faults' = faults + 1

\* C25 (as claimed): when a store operation of a getLatestPrice lookup fails,
\* the call returns the value the cache holds for the symbol at that moment
\* if it holds one (however old), and fails otherwise.
C25_FallbackIsCachedValue ==
    [][\A c \in CallIds :
          LookupFails(c) =>
             IF IsNum(priceCache[calls[c].symbol].price)
             THEN /\ calls'[c].outcome = "returned"
                  /\ calls'[c].returned = priceCache[calls[c].symbol].price
             ELSE calls'[c].outcome = "threw"]_vars

\* the step appends exactly one quote of the symbol with the price, and
\* nothing else, to the price history
AppendsOneQuote(symbol, price) ==
    \E q \in BagToSet(priceHistory') :
        /\ q.stockSymbol = symbol
        /\ q.price = price
        /\ priceHistory' = priceHistory (+) SetToBag({q})

\* the call c returns a value in this step
Returns(c) == calls'[c] # calls[c] /\ calls'[c].outcome = "returned"

\* the call c is in getLatestPrice past a cache miss
Missed(c) == calls[c].pc \in {"find", "persist"}

\* C26 (as claimed): every getLatestPrice call that found no cache entry
\* younger than CACHE_TTL and returns a value appends, in returning, exactly
\* one quote of the normalized symbol with the returned price, which is the
\* price it has put into the cache; a call that returns on a cache hit
\* appends nothing; no step changes or removes a quote.
C26_EveryMissAppendsOneQuote ==
    [][/\ priceHistory \sqsubseteq priceHistory'
       /\ \A c \in CallIds :
             /\ calls[c].pc = "find" /\ calls'[c].pc = "persist"
                => priceCache'[calls[c].symbol].price = calls'[c].price
             /\ Returns(c) =>
                   IF Missed(c)
                   THEN /\ AppendsOneQuote(calls[c].symbol, calls'[c].returned)
                        /\ calls[c].price = calls'[c].returned
                   ELSE UNCHANGED priceHistory]_vars

\* C26 (amended): every getLatestPrice call that found no cache entry
\* younger than CACHE_TTL and whose lookup does not fail appends, in
\* returning, exactly one quote of the normalized symbol with the returned
\* price, which is the price it has put into the cache; a call that returns
\* on a cache hit, and a call whose lookup fails (it returns the entry it had
\* read, or throws), appends nothing; no step changes or removes a quote.
C26_MissAppendsOneQuote ==
    [][/\ priceHistory \sqsubseteq priceHistory'
       /\ \A c \in CallIds :
             /\ calls[c].pc = "find" /\ calls'[c].pc = "persist"
                => priceCache'[calls[c].symbol].price = calls'[c].price
             /\ LookupFails(c) => UNCHANGED priceHistory
             /\ Returns(c) /\ ~LookupFails(c) =>
                   IF Missed(c)
                   THEN /\ AppendsOneQuote(calls[c].symbol, calls'[c].returned)
                        /\ calls[c].price = calls'[c].returned
                   ELSE UNCHANGED priceHistory]_vars

\* C26 witness: a call that missed the cache has returned the price it
\* computed, the history holds a quote of the normalized symbol with that
\* price, and another call has returned that price from the cache.
C26_MissThenHit ==
    \E c, d \in CallIds :
        /\ GotLatestPrice(c) /\ GotLatestPrice(d)
        /\ IsNum(calls[c].price) /\ calls[c].returned = calls[c].price
        /\ \E q \in BagToSet(priceHistory) :
              /\ q.stockSymbol = "RELIANCE"
              /\ q.price = calls[c].returned
              /\ q.fetchedAt >= calls[c].at
        /\ ~IsNum(calls[d].price)
        /\ calls[d].returned = calls[c].returned
        /\ faults = 0

\* C27: every price the price service holds or hands out is at least 1 (and
\* so never <= 0): every cache entry, every persisted quote, every price a
\* call has computed and every value a call has returned.
C27_PricesAtLeastOne ==
    /\ \A s \in Symbols : IsNum(priceCache[s].price) => RLeq(One, priceCache[s].price)
    /\ \A q \in BagToSet(priceHistory) : RLeq(One, q.price)
    /\ \A c \in CallIds :
          /\ IsNum(calls[c].price) => RLeq(One, calls[c].price)
          /\ calls[c].outcome = "returned" =>
                IsNum(calls[c].returned) /\ RLeq(One, calls[c].returned)

\* C27 witness: the last quote was 1.01 and a call has computed a lower price
\* from it, which was floored: it has cached, persisted and returned 1.
C27_Floored ==
    \E c \in CallIds :
        /\ GotLatestPrice(c)
        /\ calls[c].price = One
        /\ calls[c].returned = One
        /\ priceCache[calls[c].symbol].price = One
        /\ \E q \in BagToSet(priceHistory) :
              q.stockSymbol = calls[c].symbol /\ q.price = One
        /\ \E q \in BagToSet(priceHistory) :
              q.stockSymbol = calls[c].symbol /\ q.price = LowPrice

\* the quotes of a symbol observed at or before a date
QuotesUpTo(symbol, date) ==
    {q \in BagToSet(priceHistory) : q.stockSymbol = symbol /\ q.fetchedAt <= date}

\* C29: when the query of getPriceForDate(symbol, asOfDate) has answered,
\* then, if the history holds a quote of the normalized symbol observed at or
\* before asOfDate, the call returns the price of a newest such quote and
\* neither the cache nor the history changes; only if there is none does it
\* go on as getLatestPrice: it returns the price of a cache entry younger
\* than CACHE_TTL, or starts the lookup that computes, caches and persists a
\* new price.
C29_PriceForDate ==
    [][\A c \in CallIds :
          /\ calls[c].pc = "dateFind"
          /\ calls'[c] # calls[c]
          /\ faults' = faults
          => LET symbol == calls[c].symbol
                 eligible == QuotesUpTo(symbol, calls[c].date)
             IN  /\ symbol \in Symbols
                 /\ UNCHANGED <<priceHistory, priceCache>>
                 /\ IF eligible # {}
                    THEN /\ calls'[c].outcome = "returned"
                         /\ \E q \in eligible :
                               /\ \A p \in eligible : p.fetchedAt <= q.fetchedAt
                               /\ calls'[c].returned = q.price
                    ELSE IF IsNum(priceCache[symbol].price)
                            /\ now' - priceCache[symbol].timestamp < CACHE_TTL
                    THEN /\ calls'[c].outcome = "returned"
                         /\ calls'[c].returned = priceCache[symbol].price
                    ELSE /\ calls'[c].pc = "find"
                         /\ calls'[c].symbol = symbol]_vars

\* C29 witness: getPriceForDate has returned the price of the quote observed
\* at asOfDate while the history holds a newer quote of the symbol with
\* another price.
C29_ReturnedOlderQuote ==
    \E c \in CallIds :
        /\ calls[c].op = "getPriceForDate"
        /\ calls[c].outcome = "returned"
        /\ calls[c].date = EarlyTs
        /\ calls[c].returned = HoldingPrice
        /\ \E q \in BagToSet(priceHistory) :
              /\ q.stockSymbol = calls[c].symbol
              /\ q.fetchedAt > calls[c].date
              /\ q.price # calls[c].returned

(***************************************************************************)
(* Properties of validateTransaction                                       *)
(***************************************************************************)
\* the monetary lines of a transaction in a ledger
MonetaryLines(bag, transactionId) ==
    {d \in BagToSet(bag) : d.transactionId = transactionId /\ IsNum(d.inrAmount)}

\* the sum of the amounts of the lines of a set with the given entry type,
\* each line counted as often as the ledger `bag` holds it
RECURSIVE TotalOf(_, _, _)
TotalOf(bag, lines, entryType) ==
    IF lines = {} THEN Zero
    ELSE LET d == CHOOSE x \in lines : TRUE
             rest == TotalOf(bag, lines \ {d}, entryType)
         IN  IF d.entryType = entryType
             THEN RAdd(RMul(Rat(CopiesIn(d, bag), 1), d.inrAmount), rest)
             ELSE rest

\* debits minus credits of the monetary lines of a transaction
MonetaryBalance(bag, transactionId) ==
    RSub(TotalOf(bag, MonetaryLines(bag, transactionId), "DEBIT"),
         TotalOf(bag, MonetaryLines(bag, transactionId), "CREDIT"))

\* C28: validateTransaction(transactionId) returns true if and only if the
\* debits minus the credits of the monetary lines of the transaction are
\* less than 0.0001 from zero; the lines of the transaction that carry only
\* a stock quantity, and the lines of other transactions, have no part in
\* the result.
C28_ValidIffMonetaryBalance ==
    \A c \in CallIds :
        calls[c].op = "validateTransaction" /\ calls[c].outcome = "returned"
        => LET t == calls[c].transactionId
               balance == MonetaryBalance(ledger, t)
           IN  calls[c].valid <=>
                  (RLess(balance, Rat(1, 10000)) /\ RLess(Rat(-1, 10000), balance))

\* C28 witness: validateTransaction has returned true for a transaction that
\* holds a debit, the credit that balances it, an amount below the tolerance
\* and two quantity-only lines that do not balance.
C28_BalancedWithQuantityLines ==
    \E c \in CallIds :
        /\ calls[c].op = "validateTransaction"
        /\ calls[c].outcome = "returned"
        /\ calls[c].valid
        /\ calls[c].transactionId = 1
        /\ Cardinality(MonetaryLines(ledger, 1)) = 3
        /\ Cardinality(LinesOf(1)) = 5

(***************************************************************************)
(* Properties of the corporate-action processor, continued                 *)
(***************************************************************************)
\* the processPendingCorporateActions run r has returned
RunReturned(r) ==
    ~runs[r].direct /\ runs[r].pc = "done" /\ runs[r].outcome = "resolved"

\* C31 (as claimed): after processPendingCorporateActions has returned, every
\* action that was ANNOUNCED and due when the run started (the actions the
\* run listed) is PROCESSED or CANCELLED, whatever its action type; none is
\* still ANNOUNCED for the next run to select.
C31_DueActionsEndTerminal ==
    \A r \in RunIds :
        RunReturned(r) =>
            \A a \in runs[r].listed : actions[a].status \in {"PROCESSED", "CANCELLED"}

\* the step is the completion of the handler the invocation r runs: its
\* StockCorporateAction.updateOne has answered
HandlerCompletes(r) ==
    /\ runs[r].pc = "updateOne"
    /\ runs'[r] # runs[r]
    /\ faults' = faults

\* C32 (as claimed): when a handler completes for an action, that action is
\* PROCESSED afterwards and the status of no other action changes, also when
\* other actions have the same symbol, type and effective date, whatever
\* their status.
C32_ExactlyThatActionProcessed ==
    [][\A r \in RunIds :
          HandlerCompletes(r) =>
             /\ actions'[runs[r].action].status = "PROCESSED"
             /\ \A b \in ActionIds \ {runs[r].action} :
                   actions'[b].status = actions[b].status]_vars

\* no handler is between the first and the last write of an iteration
NoHandlerMidIteration ==
    \A r \in RunIds : runs[r].pc \notin {"create", "save", "ledger1", "ledger2"}

\* the transaction holds a USER_PORTFOLIO line of the entry type
HasPortfolioLine(transactionId, entryType) ==
    \E d \in LinesOf(transactionId) :
        d.account = "USER_PORTFOLIO" /\ d.entryType = entryType

\* C33 (as claimed): in every state in which no handler is in the middle of
\* an iteration (each has finished the iteration or has failed partway),
\* every adjustment event has its ledger lines (a split the credit of the
\* delta, a merger the old-symbol debit and the new-symbol credit), every
\* delisting transaction with the share debit has the cash credit, and every
\* original that is flipped to ADJUSTED has ledger lines of the adjustment.
C33_AdjustmentWritesAreAtomic ==
    NoHandlerMidIteration =>
        /\ \A c \in AllCreated :
              IF actions[c[1]].actionType = "STOCK_SPLIT"
              THEN HasPortfolioLine(c[3], "CREDIT")
              ELSE /\ HasPortfolioLine(c[3], "DEBIT")
                   /\ HasPortfolioLine(c[3], "CREDIT")
        /\ \A e \in RewardIds :
              /\ rewards[e].adjustmentReason = "DELISTING"
                 /\ HasPortfolioLine(e, "DEBIT")
                 => \E d \in LinesOf(e) :
                       d.account = "COMPANY_CASH" /\ d.entryType = "CREDIT"
              /\ rewards[e].status = "ADJUSTED" /\ rewards[e].parentRewardId = 0
                 => \/ HasPortfolioLine(e, "DEBIT")
                    \/ \E c \in AllCreated :
                          c[2] = e /\ LinesOf(c[3]) # {}

\* the sum of the quantities of a set of reward events
RECURSIVE SumQuantities(_)
SumQuantities(ids) ==
    IF ids = {} THEN Zero
    ELSE LET i == CHOOSE x \in ids : TRUE
         IN  RAdd(rewards[i].quantity, SumQuantities(ids \ {i}))

\* the events derived for the original event e
DerivedFrom(e) == {i \in RewardIds : rewards[i].parentRewardId = e}

\* to / from of a split action
SplitRatio(a) == RDiv(Rat(actions[a].details.to, 1), Rat(actions[a].details.from, 1))

\* C34 (as claimed): when one processPendingCorporateActions run, alone and
\* without a store failure, has handled two split actions of a symbol one
\* after the other, with ratios r1 and r2, then for every holding dated
\* before both the original event and the events derived for it sum to
\* original quantity * r1 * r2.
C34_TwoSplitsCompose ==
    \A r \in RunIds : \A a1, a2 \in runs[r].handled :
        /\ RanAlone(r)
        /\ a1 # a2
        /\ actions[a1].actionType = "STOCK_SPLIT"
        /\ actions[a2].actionType = "STOCK_SPLIT"
        /\ actions[a1].stockSymbol = actions[a2].stockSymbol
        => \A e \in HoldingsBefore(a1) \cap HoldingsBefore(a2) :
              SumQuantities({e} \cup DerivedFrom(e)) =
                 RMul(RMul(rewards[e].quantity, SplitRatio(a1)), SplitRatio(a2))

\* the USER_PORTFOLIO lines of a user and a symbol
PortfolioLinesOf(userId, stockSymbol) ==
    {d \in BagToSet(ledger) :
        /\ d.account = "USER_PORTFOLIO"
        /\ d.userId = userId
        /\ d.stockSymbol = stockSymbol}

\* credits minus debits of the quantities of a set of ledger lines, each
\* line counted as often as the ledger holds it
RECURSIVE NetQuantity(_)
NetQuantity(lines) ==
    IF lines = {} THEN Zero
    ELSE LET d == CHOOSE x \in lines : TRUE
             signed == IF d.entryType = "CREDIT" THEN d.quantity ELSE RNeg(d.quantity)
         IN  RAdd(RMul(Rat(CopiesIn(d, ledger), 1), signed), NetQuantity(lines \ {d}))

\* C35 (as claimed): when a run, alone and without a store failure, has
\* ended after calling the handler of a delisting, then for every holding of
\* the symbol dated before the effective date the USER_PORTFOLIO lines of
\* the symbol posted for the holding and for the events derived from it
\* (credits minus debits) sum to zero, whatever splits or mergers the run
\* handled before the delisting.
C35_DelistingZeroesHoldings ==
    \A r \in RunIds : \A a \in runs[r].handled :
        /\ RanAlone(r)
        /\ actions[a].actionType = "DELISTING"
        => \A e \in HoldingsBefore(a) :
              NetQuantity({d \in PortfolioLinesOf(rewards[e].userId, actions[a].stockSymbol) :
                              d.transactionId \in {e} \cup DerivedFrom(e)}) = Zero

(***************************************************************************)
(* The portfolio query: controllers/rewardController.js, getPortfolio      *)
(***************************************************************************)
\* RewardEvent.aggregate([{ $match: { userId } }, { $group: { _id:
\* "$stockSymbol", totalShares: { $sum: "$quantity" } } }]): the total of a
\* symbol, over the user's events of every status
PortfolioShares(userId, stockSymbol) ==
    SumQuantities({i \in RewardIds :
                      rewards[i].userId = userId /\ rewards[i].stockSymbol = stockSymbol})

\* no invocation of createReward or of the corporate-action service is running
AllCompleted ==
    /\ \A r \in Requests : req[r].pc \in {"idle", "done"}
    /\ \A r \in RunIds : runs[r].pc \in {"idle", "done"}

\* C36 (as claimed): when every createReward, split, merger and delisting
\* operation that was started has completed (and no store operation failed
\* for an outside reason), then for every user and symbol the holding the
\* portfolio query reports equals the user's net USER_PORTFOLIO ledger
\* quantity of the symbol.
C36_PortfolioEqualsLedger ==
    AllCompleted /\ faults = 0 =>
        \A e \in RewardIds :
            PortfolioShares(rewards[e].userId, rewards[e].stockSymbol) =
               NetQuantity(PortfolioLinesOf(rewards[e].userId, rewards[e].stockSymbol))

(***************************************************************************)
(* Properties of the stores under corporate actions                        *)
(***************************************************************************)
\* C37 (as claimed): every RewardEvent and every ledger line that carries a
\* quantity has quantity >= 0, and a processStockSplit call that no store
\* failure interrupts completes (does not throw) whatever the holdings and
\* the ratio, a reverse split (to < from) included.
C37_QuantitiesNonNegative ==
    /\ \A e \in RewardIds : rewards[e].quantity.n >= 0
    /\ \A d \in BagToSet(ledger) : IsNum(d.quantity) => d.quantity.n >= 0
    /\ \A r \in RunIds : \A a \in runs[r].failed :
          faults = 0 => actions[a].actionType # "STOCK_SPLIT"

(***************************************************************************)
(* Properties of the price service, continued                              *)
(***************************************************************************)
\* C38 (as claimed): whenever the cache holds a price for a symbol, the
\* price history holds a quote of the symbol with exactly that price, also
\* after the persisting of a new quote has failed.  (Stated for the states
\* in which no call is between its cache write and its persisting.)
C38_CachedPriceIsPersisted ==
    (\A c \in CallIds : calls[c].pc # "persist") =>
        \A s \in Symbols :
            IsNum(priceCache[s].price) =>
                \E q \in BagToSet(priceHistory) :
                    q.stockSymbol = s /\ q.price = priceCache[s].price

(***************************************************************************)
(* Properties of the reward intake under retries                           *)
(***************************************************************************)
\* a submission other than r with the idempotency key of r is still running
OtherInFlight(r) ==
    \E q \in Requests \ {r} :
        /\ req[q].pc \notin {"idle", "done"}
        /\ req[q].body.idempotencyKey = req[r].body.idempotencyKey

\* C39 (as claimed): whenever createReward answers 'already recorded' (200)
\* for an idempotency key while no other submission with that key is
\* running, the recorded reward has its complete ledger transaction: all
\* five lines, each once (a retry after a failed first attempt included).
C39_RecordedMeansComplete ==
    [][\A r \in Requests :
          /\ req[r].pc = "findOne"
          /\ req'[r].pc = "done"
          /\ req'[r].resp.status = 200
          /\ ~OtherInFlight(r)
          => /\ Cardinality(LinesOf(req'[r].resp.rewardId)) = 5
             /\ EachOnce(LinesOf(req'[r].resp.rewardId))]_vars

(***************************************************************************)
(* Properties of rewards arriving while corporate actions are processed    *)
(***************************************************************************)
\* C40 (as claimed): while a split, merger or delisting action is PROCESSED,
\* no ACTIVE RewardEvent of the action's symbol dated before the action's
\* effective date exists, also when createReward submissions with an
\* earlier caller-supplied timestamp arrive while the handler runs or after
\* it has finished.
C40_NoActiveBeforeProcessed ==
    \A a \in ActionIds :
        actions[a].status = "PROCESSED" /\ HasHandler(actions[a].actionType)
        => \A e \in RewardIds : ~TakesPart(e, a)

=============================================================================
